---- MODULE Spec2Model ----
(***************************************************************************)
(* Model of the BNS (Bitmap Naming Service) prompt derivation of the       *)
(* blockchain store: merkleToTldAlpha, calculateCharShift, findWordMatch   *)
(* and findBnsWords.                                                       *)
(*                                                                         *)
(* A JavaScript string is modelled as a sequence of one-character strings, *)
(* so that indexing, substring and indexOf are computed, not assumed.      *)
(***************************************************************************)
EXTENDS Integers, Sequences, FiniteSets, TLC

VARIABLES
    pc,          \* the function the caller is about to run, or "done"
    merkleRoot,  \* argument of merkleToTldAlpha / findBnsWords
    tldAlpha,    \* result of merkleToTldAlpha; first argument of findWordMatch
    source,      \* first argument of calculateCharShift
    target,      \* second argument of calculateCharShift
    shift,       \* result of calculateCharShift
    word,        \* second argument of findWordMatch
    match,       \* result of findWordMatch
    maxWords,    \* second argument of findBnsWords
    matches,     \* result of findBnsWords
    height,      \* second argument of generateBnsPrompt
    prompt,      \* result of generateBnsPrompt
    \* SamplePackerAPI.fetchWithRetry
    attempts,    \* argument attempts
    attempt,     \* loop variable attempt
    retryPc,     \* position of the call: "loop", "fetch", "wait", "returned", "rejected"
    fetchCalls,  \* number of fetch calls issued so far
    caught,      \* the errors caught so far, oldest first
    waited,      \* milliseconds spent in the retry delays so far
    response,    \* the response the call returned, or null
    thrown,      \* the error the call rejected with, or null
    \* useSamplePackGenerator: state and refs of the hook
    isGenerating,
    currentJob,
    generationResult,
    error,
    progress,
    isBackendHealthy,       \* "null", "true" or "false"
    pollingRef,             \* the id of the interval timer, NO_TIMER for null
    pollingIntervalRef,
    consecutiveErrorsRef,
    \* useSamplePackGenerator: the browser and the backend around the hook
    timers,                 \* the interval timers that are set: [id, delay, jobId]
    polls,                  \* the pollJobStatus calls awaiting a reply
    creating,               \* the number of generateSamplePack calls awaiting createSamplePack
    deleting,               \* a cancelGeneration call is awaiting deleteJob
    jobsCreated,            \* number of jobs the backend has created
    pollsIssued,            \* number of pollJobStatus calls the timers have made
    lastPollDelay,          \* milliseconds between the last two timer polls, 0 before the second
    errorsAtPoll,           \* consecutiveErrorsRef when the last timer poll was made
    cancelled,              \* "pending" from the start of a cancelGeneration call, "yes" once
                            \* it has completed, "no" from the next generateSamplePack call on
    atCancel,               \* the state of the hook when cancelGeneration completed
    \* useStudioSettings
    localStorage,           \* window.localStorage: the stored string per key, or null
    packId,                 \* argument of the hook; "" stands for undefined
    settings,
    hasLoadedFromStorage,
    studioPc,               \* "unmounted", "mounted" (load effect pending) or "ready"
    clock,                  \* what new Date() reads
    startedEmpty,           \* localStorage had no entry for packId when the hook was mounted
    lastChange,             \* the last updateStemSettings / updateMasterVolume call since then
    \* useBlockchainStore
    currentBlock,
    bnsPrompt,
    bnsMatches,
    isLoading,
    storeError,             \* the field error of the store
    calls,                  \* the fetchAndSetBlock calls made so far, in the order of the calls
    disturbed,              \* setCurrentBlock or clearBlock ran after the last fetchAndSetBlock call
    bnsTable                \* generateBnsPrompt and findBnsWords of the blocks of the chain

bnsVars == <<pc, merkleRoot, tldAlpha, source, target, shift, word, match,
             maxWords, matches, height, prompt>>

retryVars == <<attempts, attempt, retryPc, fetchCalls, caught, waited, response, thrown>>

hookState == <<isGenerating, currentJob, generationResult, error, progress>>

hookVars == <<hookState, isBackendHealthy, pollingRef, pollingIntervalRef,
              consecutiveErrorsRef, timers, polls, creating, deleting, jobsCreated,
              pollsIssued, lastPollDelay, errorsAtPoll, cancelled, atCancel>>

studioVars == <<localStorage, packId, settings, hasLoadedFromStorage, studioPc, clock,
                startedEmpty, lastChange>>

storeState == <<currentBlock, bnsPrompt, bnsMatches, isLoading, storeError>>

storeVars == <<storeState, calls, disturbed, bnsTable>>

\* the variables outside the BNS functions
appVars == <<retryVars, hookVars, studioVars, storeVars>>

vars == <<bnsVars, appVars>>

----------------------------------------------------------------------------
(* Bounds of the model                                                     *)

\* longest hex input of merkleToTldAlpha, in bytes
MaxBytes == 3
\* longest TLD-alpha string handed to findWordMatch
MaxAlphaLen == 4
\* longest word handed to findWordMatch
MaxWordLen == 3
\* longest merkle root handed to findBnsWords, in bytes
MaxRootBytes == 4
\* longest of the short roots handed to generateBnsPrompt, in bytes
MaxShortRoot == 4

----------------------------------------------------------------------------
(* JavaScript values and string primitives                                 *)

\* the result of parseInt on a string with no leading digit
NaN == -1
\* the value of an out-of-range or NaN array index
undefined == "undefined"
\* the no-match result of findWordMatch
null == [isNull |-> TRUE]

Min(a, b) == IF a <= b THEN a ELSE b
Max(a, b) == IF a >= b THEN a ELSE b
Abs(n) == IF n < 0 THEN -n ELSE n

\* a sequence given as a function expression, evaluated once into a tuple
Tuple(f) == SubSeq(f, 1, Len(f))

\* String.prototype.substring(start, end): both indices are clamped to
\* [0, length] (and swapped when start > end); 0-based, end exclusive.
substring(s, start, end) ==
    LET a == Min(Max(start, 0), Len(s))
        b == Min(Max(end, 0), Len(s))
    IN  SubSeq(s, Min(a, b) + 1, Max(a, b))

\* String.prototype.indexOf for a one-character needle: 0-based index of the
\* first occurrence at or after 0-based offset k, -1 when there is none.
RECURSIVE indexFrom(_, _, _)
indexFrom(s, c, k) ==
    IF k >= Len(s) THEN -1
    ELSE IF s[k + 1] = c THEN k
    ELSE indexFrom(s, c, k + 1)

indexOf(s, c) == indexFrom(s, c, 0)

UPPER_CASE == <<"A","B","C","D","E","F","G","H","I","J","K","L","M",
                "N","O","P","Q","R","S","T","U","V","W","X","Y","Z">>
LOWER_CASE == <<"a","b","c","d","e","f","g","h","i","j","k","l","m",
                "n","o","p","q","r","s","t","u","v","w","x","y","z">>

UpperCaseLetters == {UPPER_CASE[k] : k \in 1..Len(UPPER_CASE)}

\* String.prototype.toLowerCase on one character
toLowerCase(c) ==
    IF c \in UpperCaseLetters THEN LOWER_CASE[indexOf(UPPER_CASE, c) + 1] ELSE c

HEX_DIGITS == <<"0","1","2","3","4","5","6","7","8","9","a","b","c","d","e","f">>

\* parseInt(s, 16): the value of the longest prefix of s made of hex digits,
\* NaN when that prefix is empty.
RECURSIVE parseHexPrefix(_, _, _)
parseHexPrefix(s, k, acc) ==
    IF k > Len(s) \/ indexOf(HEX_DIGITS, toLowerCase(s[k])) = -1
    THEN acc
    ELSE parseHexPrefix(s, k + 1, acc * 16 + indexOf(HEX_DIGITS, toLowerCase(s[k])))

parseInt16(s) ==
    IF Len(s) = 0 \/ indexOf(HEX_DIGITS, toLowerCase(s[1])) = -1
    THEN NaN
    ELSE parseHexPrefix(s, 1, 0)

\* jsMod with the reduction forgotten: the byte value is used as the index
jsMod_noReduce(v, n) == v

\* the % operator of JavaScript on a parseInt result: NaN % n is NaN
jsMod(v, n) == IF v = NaN THEN NaN ELSE v % n

\* Array.prototype.join(''): undefined elements contribute nothing
RECURSIVE join(_)
join(arr) ==
    IF arr = <<>> THEN <<>>
    ELSE IF Head(arr) = undefined THEN join(Tail(arr))
    ELSE <<Head(arr)>> \o join(Tail(arr))

----------------------------------------------------------------------------
(* The BNS constants                                                       *)

\* TLD alphabet for BNS: a-z, 0-9, - (37 characters total)
TLD_ALPHABET ==
    <<"a","b","c","d","e","f","g","h","i","j","k","l","m",
      "n","o","p","q","r","s","t","u","v","w","x","y","z",
      "0","1","2","3","4","5","6","7","8","9","-">>

\* the literal 37 of merkleToTldAlpha and calculateCharShift
ALPHABET_SIZE == 37

\* Word list for BNS matching, in declaration order (duplicates included)
BNS_WORD_LIST == <<
    <<"b","e","a","t">>, <<"b","a","s","s">>, <<"d","r","u","m">>, <<"s","y","n","t","h">>, <<"w","a","v","e">>, <<"t","o","n","e">>, <<"v","i","b","e">>, <<"l","o","o","p">>, <<"m","i","x">>, <<"d","r","o","p">>,
    <<"f","a","d","e">>, <<"e","c","h","o">>, <<"f","l","o","w">>, <<"f","u","n","k">>, <<"j","a","z","z">>, <<"s","o","u","l">>, <<"r","o","c","k">>, <<"p","o","p">>, <<"t","r","a","p">>, <<"b","o","o","m">>,
    <<"k","i","c","k">>, <<"s","n","a","r","e">>, <<"h","a","t">>, <<"p","a","d">>, <<"l","e","a","d">>, <<"c","h","o","r","d">>, <<"n","o","t","e">>, <<"t","u","n","e">>, <<"s","o","n","g">>, <<"t","r","a","c","k">>,
    <<"g","r","o","o","v","e">>, <<"r","h","y","t","h","m">>, <<"m","e","l","o","d","y">>, <<"s","o","u","n","d">>, <<"a","u","d","i","o">>, <<"m","u","s","i","c">>, <<"t","e","m","p","o">>, <<"p","i","t","c","h">>,
    <<"d","a","r","k">>, <<"d","e","e","p">>, <<"w","a","r","m">>, <<"c","o","o","l">>, <<"h","o","t">>, <<"c","o","l","d">>, <<"s","o","f","t">>, <<"h","a","r","d">>, <<"l","o","u","d">>, <<"c","a","l","m">>,
    <<"w","i","l","d">>, <<"f","r","e","e">>, <<"s","l","o","w">>, <<"f","a","s","t">>, <<"h","i","g","h">>, <<"l","o","w">>, <<"r","a","w">>, <<"p","u","r","e">>, <<"r","i","c","h">>, <<"s","m","o","o","t","h">>,
    <<"c","h","i","l","l">>, <<"h","y","p","e">>, <<"d","r","e","a","m">>, <<"d","a","z","e">>, <<"g","l","o","w">>, <<"s","h","i","n","e">>, <<"s","p","a","r","k">>, <<"f","l","a","s","h">>, <<"b","l","a","z","e">>,
    <<"m","e","l","l","o","w">>, <<"i","n","t","e","n","s","e">>, <<"s","e","r","e","n","e">>, <<"v","i","v","i","d">>, <<"c","r","i","s","p">>, <<"l","u","s","h">>,
    <<"s","u","n">>, <<"m","o","o","n">>, <<"s","t","a","r">>, <<"s","k","y">>, <<"r","a","i","n">>, <<"w","i","n","d">>, <<"f","i","r","e">>, <<"i","c","e">>, <<"s","e","a">>, <<"w","a","v","e">>,
    <<"s","t","o","r","m">>, <<"c","l","o","u","d">>, <<"m","i","s","t">>, <<"f","o","g">>, <<"d","u","s","t">>, <<"s","a","n","d">>, <<"e","a","r","t","h">>, <<"s","t","o","n","e">>, <<"g","o","l","d">>,
    <<"o","c","e","a","n">>, <<"r","i","v","e","r">>, <<"f","o","r","e","s","t">>, <<"n","i","g","h","t">>, <<"d","a","w","n">>, <<"d","u","s","k">>, <<"l","i","g","h","t">>,
    <<"h","a","s","h">>, <<"b","l","o","c","k">>, <<"c","h","a","i","n">>, <<"n","o","d","e">>, <<"c","o","i","n">>, <<"b","i","t">>, <<"b","y","t","e">>, <<"c","o","d","e">>, <<"d","a","t","a">>, <<"k","e","y">>,
    <<"l","i","n","k">>, <<"g","r","i","d">>, <<"n","e","t">>, <<"w","e","b">>, <<"c","o","r","e">>, <<"p","e","a","k">>, <<"e","d","g","e">>, <<"z","o","n","e">>, <<"r","e","a","l","m">>, <<"v","o","i","d">>,
    <<"n","e","x","u","s">>, <<"p","u","l","s","e">>, <<"f","l","u","x">>, <<"o","r","b","i","t">>, <<"m","a","t","r","i","x">>, <<"c","i","p","h","e","r">>, <<"c","r","y","p","t","o">>,
    <<"r","e","d">>, <<"b","l","u","e">>, <<"g","r","e","e","n">>, <<"p","i","n","k">>, <<"g","r","a","y">>, <<"c","y","a","n">>, <<"j","a","d","e">>, <<"r","u","b","y">>, <<"a","m","b","e","r">>,
    <<"a","z","u","r","e">>, <<"c","o","r","a","l">>, <<"i","v","o","r","y">>, <<"o","n","y","x">>, <<"p","e","a","r","l">>, <<"s","i","l","v","e","r">>, <<"v","i","o","l","e","t">>,
    <<"r","i","s","e">>, <<"f","a","l","l">>, <<"s","p","i","n">>, <<"r","o","l","l">>, <<"s","w","i","n","g">>, <<"j","u","m","p">>, <<"f","l","y">>, <<"r","u","n">>, <<"m","o","v","e">>, <<"p","u","s","h">>,
    <<"p","u","l","l">>, <<"b","r","e","a","k">>, <<"m","a","k","e">>, <<"b","u","i","l","d">>, <<"g","r","o","w">>, <<"s","h","i","f","t">>, <<"d","r","i","f","t">>, <<"f","l","o","a","t">>, <<"g","l","i","d","e">>,
    <<"p","a","s","t">>, <<"n","o","w">>, <<"n","e","x","t">>, <<"e","n","d">>, <<"s","t","a","r","t">>, <<"l","o","o","p">>, <<"c","y","c","l","e">>, <<"p","h","a","s","e">>, <<"s","t","e","p">>, <<"p","a","t","h">>,
    <<"f","u","t","u","r","e">>, <<"m","o","m","e","n","t">>, <<"e","t","e","r","n","a","l">>, <<"i","n","f","i","n","i","t","e">>,
    <<"s","a","t","o","s","h","i">>, <<"g","e","n","e","s","i","s">>, <<"h","a","l","v","i","n","g">>, <<"m","i","n","i","n","g">>, <<"p","r","o","o","f">>, <<"w","o","r","k">>, <<"s","t","a","k","e">>, <<"h","o","d","l">>,
    <<"b","u","l","l">>, <<"b","e","a","r">>, <<"w","h","a","l","e">>, <<"m","o","o","n">>, <<"p","u","m","p">>, <<"s","t","a","c","k">>, <<"s","a","t","s">>
>>

\* the default of findBnsWords' maxWords parameter
DEFAULT_MAX_WORDS == 8

----------------------------------------------------------------------------
(* merkleToTldAlpha                                                        *)

\* alphabetAt with the index taken as 1-based
alphabetAt_oneBased(charIndex) ==
    IF charIndex \in 1..Len(TLD_ALPHABET)
    THEN TLD_ALPHABET[charIndex]
    ELSE undefined

\* TLD_ALPHABET[charIndex]; a NaN index reads undefined
alphabetAt(charIndex) ==
    IF charIndex \in 0..(Len(TLD_ALPHABET) - 1)
    THEN TLD_ALPHABET[charIndex + 1]
    ELSE undefined

\* the body of the for loop, from 0-based offset i, with the array so far
RECURSIVE merkleLoop(_, _, _)
merkleLoop(root, i, result) ==
    IF i < Len(root)
    THEN LET hexByte == substring(root, i, i + 2)
             byteValue == parseInt16(hexByte)
             charIndex == jsMod(byteValue, ALPHABET_SIZE)
         IN  merkleLoop(root, i + 2, Append(result, alphabetAt(charIndex)))
    ELSE result

merkleToTldAlpha(root) == join(merkleLoop(root, 0, <<>>))

----------------------------------------------------------------------------
(* calculateCharShift                                                      *)

\* TLD_ALPHABET.indexOf(c), tabulated once for the characters of the alphabet
alphabetIndex ==
    [c \in {TLD_ALPHABET[k] : k \in 1..Len(TLD_ALPHABET)} |-> indexOf(TLD_ALPHABET, c)] @@ <<>>

alphabetIndexOf(c) == IF c \in DOMAIN alphabetIndex THEN alphabetIndex[c] ELSE -1

\* calculateCharShift with the sign of the backward direction dropped
calculateCharShift_unsigned(src, tgt) ==
    LET sourceIdx == alphabetIndexOf(toLowerCase(src))
        targetIdx == alphabetIndexOf(toLowerCase(tgt))
        forward == (targetIdx - sourceIdx + ALPHABET_SIZE) % ALPHABET_SIZE
        backward == (sourceIdx - targetIdx + ALPHABET_SIZE) % ALPHABET_SIZE
    IN  IF sourceIdx = -1 \/ targetIdx = -1 THEN ALPHABET_SIZE
        ELSE IF forward <= backward THEN forward ELSE backward

\* calculateCharShift that always goes forward
calculateCharShift_forwardOnly(src, tgt) ==
    LET sourceIdx == alphabetIndexOf(toLowerCase(src))
        targetIdx == alphabetIndexOf(toLowerCase(tgt))
        forward == (targetIdx - sourceIdx + ALPHABET_SIZE) % ALPHABET_SIZE
    IN  IF sourceIdx = -1 \/ targetIdx = -1 THEN ALPHABET_SIZE
        ELSE forward

\* calculateCharShift with the wrap-around of the two distances forgotten
calculateCharShift_noWrap(src, tgt) ==
    LET sourceIdx == alphabetIndexOf(toLowerCase(src))
        targetIdx == alphabetIndexOf(toLowerCase(tgt))
        forward == targetIdx - sourceIdx + ALPHABET_SIZE
        backward == sourceIdx - targetIdx + ALPHABET_SIZE
    IN  IF sourceIdx = -1 \/ targetIdx = -1 THEN ALPHABET_SIZE
        ELSE IF forward <= backward THEN forward ELSE -backward

\* calculateCharShift measuring from the target to the source
calculateCharShift_swapped(src, tgt) ==
    LET sourceIdx == alphabetIndexOf(toLowerCase(tgt))
        targetIdx == alphabetIndexOf(toLowerCase(src))
        forward == (targetIdx - sourceIdx + ALPHABET_SIZE) % ALPHABET_SIZE
        backward == (sourceIdx - targetIdx + ALPHABET_SIZE) % ALPHABET_SIZE
    IN  IF sourceIdx = -1 \/ targetIdx = -1 THEN ALPHABET_SIZE
        ELSE IF forward <= backward THEN forward ELSE -backward

\* Minimal circular shift between two characters of the TLD alphabet;
\* 37 when either character is not in the alphabet.
calculateCharShift(src, tgt) ==
    LET sourceIdx == alphabetIndexOf(toLowerCase(src))
        targetIdx == alphabetIndexOf(toLowerCase(tgt))
        forward == (targetIdx - sourceIdx + ALPHABET_SIZE) % ALPHABET_SIZE
        backward == (sourceIdx - targetIdx + ALPHABET_SIZE) % ALPHABET_SIZE
    IN  IF sourceIdx = -1 \/ targetIdx = -1 THEN ALPHABET_SIZE
        ELSE IF forward <= backward THEN forward ELSE -backward

----------------------------------------------------------------------------
(* findWordMatch                                                           *)

\* scoreLoop that adds the signed shift instead of its absolute value
RECURSIVE scoreLoop_signedSum(_, _, _, _, _, _)
scoreLoop_signedSum(window, w, i, shifts, totalShift, exactMatch) ==
    IF i < Len(w)
    THEN LET s == calculateCharShift(window[i + 1], w[i + 1])
         IN  scoreLoop_signedSum(window, w, i + 1, Append(shifts, s),
                                 totalShift + s, exactMatch /\ s = 0)
    ELSE [shifts |-> shifts, totalShift |-> totalShift, exactMatch |-> exactMatch]

\* the inner for loop over the characters of the word: the candidate record
\* of one window position
RECURSIVE scoreLoop(_, _, _, _, _, _)
scoreLoop(window, w, i, shifts, totalShift, exactMatch) ==
    IF i < Len(w)
    THEN LET s == calculateCharShift(window[i + 1], w[i + 1])
         IN  scoreLoop(window, w, i + 1, Append(shifts, s),
                       totalShift + Abs(s), exactMatch /\ s = 0)
    ELSE [shifts |-> shifts, totalShift |-> totalShift, exactMatch |-> exactMatch]

\* matchLoop that stops one position early (pos < length difference)
RECURSIVE matchLoop_skipLast(_, _, _, _)
matchLoop_skipLast(alpha, w, pos, bestMatch) ==
    IF pos < Len(alpha) - Len(w)
    THEN LET window == substring(alpha, pos, pos + Len(w))
             sc == scoreLoop(window, w, 0, <<>>, 0, TRUE)
             retained ==
                 IF bestMatch = null \/ sc.totalShift < bestMatch.totalShift
                 THEN [word |-> w, position |-> pos, window |-> window,
                       shifts |-> sc.shifts, totalShift |-> sc.totalShift,
                       exactMatch |-> sc.exactMatch]
                 ELSE bestMatch
         IN  IF sc.exactMatch THEN retained
             ELSE matchLoop_skipLast(alpha, w, pos + 1, retained)
    ELSE bestMatch

\* matchLoop that also replaces the retained match on an equal totalShift
RECURSIVE matchLoop_lastWins(_, _, _, _)
matchLoop_lastWins(alpha, w, pos, bestMatch) ==
    IF pos <= Len(alpha) - Len(w)
    THEN LET window == substring(alpha, pos, pos + Len(w))
             sc == scoreLoop(window, w, 0, <<>>, 0, TRUE)
             retained ==
                 IF bestMatch = null \/ sc.totalShift <= bestMatch.totalShift
                 THEN [word |-> w, position |-> pos, window |-> window,
                       shifts |-> sc.shifts, totalShift |-> sc.totalShift,
                       exactMatch |-> sc.exactMatch]
                 ELSE bestMatch
         IN  IF sc.exactMatch THEN retained
             ELSE matchLoop_lastWins(alpha, w, pos + 1, retained)
    ELSE bestMatch

\* the outer for loop over the start positions, from position pos with the
\* best match retained so far
RECURSIVE matchLoop(_, _, _, _)
matchLoop(alpha, w, pos, bestMatch) ==
    IF pos <= Len(alpha) - Len(w)
    THEN LET window == substring(alpha, pos, pos + Len(w))
             sc == scoreLoop(window, w, 0, <<>>, 0, TRUE)
             retained ==
                 IF bestMatch = null \/ sc.totalShift < bestMatch.totalShift
                 THEN [word |-> w, position |-> pos, window |-> window,
                       shifts |-> sc.shifts, totalShift |-> sc.totalShift,
                       exactMatch |-> sc.exactMatch]
                 ELSE bestMatch
         IN  IF sc.exactMatch THEN retained
             ELSE matchLoop(alpha, w, pos + 1, retained)
    ELSE bestMatch

\* findWordMatch that also rejects a word exactly as long as the string
findWordMatch_strictFit(alpha, w) ==
    IF Len(w) >= Len(alpha) THEN null ELSE matchLoop(alpha, w, 0, null)

findWordMatch(alpha, w) ==
    IF Len(w) > Len(alpha) THEN null ELSE matchLoop(alpha, w, 0, null)

----------------------------------------------------------------------------
(* findBnsWords                                                            *)

\* the for loop over BNS_WORD_LIST: the non-null matches, in dictionary order
isMatch(m) == m # null

collectMatches(alpha) ==
    SelectSeq([k \in 1..Len(BNS_WORD_LIST) |-> findWordMatch(alpha, BNS_WORD_LIST[k])],
              isMatch)

\* compareMatches with the totalShift difference taken the other way round
compareMatches_descending(a, b) ==
    IF a.exactMatch /\ ~b.exactMatch THEN -1
    ELSE IF ~a.exactMatch /\ b.exactMatch THEN 1
    ELSE b.totalShift - a.totalShift

\* the comparator handed to Array.prototype.sort
compareMatches(a, b) ==
    IF a.exactMatch /\ ~b.exactMatch THEN -1
    ELSE IF ~a.exactMatch /\ b.exactMatch THEN 1
    ELSE a.totalShift - b.totalShift

\* sortsBefore of a sort that puts the later of two equal elements first
sortsBefore_tiesReversed(arr, j, k) ==
    LET c == compareMatches(arr[j], arr[k])
    IN  c < 0 \/ (c = 0 /\ j > k)

\* Array.prototype.sort with this comparator.  The sort is stable (ECMAScript
\* 2019) and the comparator is a consistent weak order, so element k of the
\* array lands after exactly the elements that compare smaller and the
\* earlier elements that compare equal.
sortsBefore(arr, j, k) ==
    LET c == compareMatches(arr[j], arr[k])
    IN  c < 0 \/ (c = 0 /\ j < k)

sortMatches(arr) ==
    LET rank == Tuple([k \in 1..Len(arr) |->
                    Cardinality({j \in 1..Len(arr) : sortsBefore(arr, j, k)}) + 1])
    IN  Tuple([p \in 1..Len(arr) |-> arr[CHOOSE k \in 1..Len(arr) : rank[k] = p]])

\* Array.prototype.slice(0, end) for end >= 0
slice0(arr, end) == SubSeq(arr, 1, Min(end, Len(arr)))

\* findBnsWords that cuts the list to the limit before sorting it
findBnsWords_sliceBeforeSort(root, limit) ==
    LET alpha == merkleToTldAlpha(root)
        found == collectMatches(alpha)
    IN  sortMatches(slice0(found, limit))

findBnsWords(root, limit) ==
    LET alpha == merkleToTldAlpha(root)
        found == collectMatches(alpha)
    IN  slice0(sortMatches(found), limit)

----------------------------------------------------------------------------
(* generateBnsPrompt                                                       *)

\* the value of an out-of-range or NaN index into an array of strings
\* (no string: every element of a string is a single character)
undefinedEntry == <<"undefined">>

\* the limit generateBnsPrompt passes to findBnsWords
PROMPT_WORDS == 6

\* the decimal digits of a non-negative integer, most significant first
RECURSIVE decimalDigits(_)
decimalDigits(n) ==
    IF n < 10 THEN <<HEX_DIGITS[n + 1]>>
    ELSE Append(decimalDigits(n \div 10), HEX_DIGITS[(n % 10) + 1])

\* `${height}`: the decimal writing of an integer
numberToString(n) == IF n < 0 THEN <<"-">> \o decimalDigits(-n) ELSE decimalDigits(n)

\* Array.prototype.join(sep) on an array of strings: undefined elements
\* contribute the empty string
RECURSIVE joinWith(_, _)
joinWith(arr, sep) ==
    IF arr = <<>> THEN <<>>
    ELSE LET first == IF Head(arr) = undefinedEntry THEN <<>> ELSE Head(arr)
         IN  IF Len(arr) = 1 THEN first
             ELSE first \o sep \o joinWith(Tail(arr), sep)

\* String.prototype.trim: the blanks at both ends removed
RECURSIVE trimStart(_)
trimStart(s) == IF s # <<>> /\ Head(s) = " " THEN trimStart(Tail(s)) ELSE s

RECURSIVE trimEnd(_)
trimEnd(s) ==
    IF s # <<>> /\ s[Len(s)] = " " THEN trimEnd(SubSeq(s, 1, Len(s) - 1)) ELSE s

trim(s) == trimEnd(trimStart(s))

\* elementAt with the index taken as 1-based
elementAt_oneBased(arr, i) == IF i \in 1..Len(arr) THEN arr[i] ELSE undefinedEntry

\* arr[i] for a number or NaN i
elementAt(arr, i) == IF i \in 0..(Len(arr) - 1) THEN arr[i + 1] ELSE undefinedEntry

\* matches.map(m => m.word)
wordsOf(ms) == [k \in 1..Len(ms) |-> ms[k].word]

genres == <<
    <<"a","m","b","i","e","n","t">>,
    <<"l","o","f","i">>,
    <<"e","l","e","c","t","r","o","n","i","c">>,
    <<"s","y","n","t","h","w","a","v","e">>,
    <<"c","h","i","l","l","h","o","p">>,
    <<"t","r","a","p">>,
    <<"b","o","o","m"," ","b","a","p">>,
    <<"j","a","z","z">>>>

moods == <<
    <<"e","t","h","e","r","e","a","l">>,
    <<"d","a","r","k">>,
    <<"u","p","b","e","a","t">>,
    <<"m","e","l","a","n","c","h","o","l","i","c">>,
    <<"e","n","e","r","g","e","t","i","c">>,
    <<"d","r","e","a","m","y">>,
    <<"i","n","t","e","n","s","e">>,
    <<"p","e","a","c","e","f","u","l">>>>

BLOCK_PREFIX == <<"b","l","o","c","k"," ">>
TRAILER == <<"b","i","t","c","o","i","n"," ","b","l","o","c","k","c","h","a","i","n">>
SPACE == <<" ">>
EARLY_BITCOIN == <<"e","a","r","l","y"," ","b","i","t","c","o","i","n">>
FIRST_HALVING == <<"f","i","r","s","t"," ","h","a","l","v","i","n","g">>
SECOND_HALVING == <<"s","e","c","o","n","d"," ","h","a","l","v","i","n","g">>
THIRD_HALVING == <<"t","h","i","r","d"," ","h","a","l","v","i","n","g">>
FOURTH_HALVING == <<"f","o","u","r","t","h"," ","h","a","l","v","i","n","g">>
MODERN_ERA == <<"m","o","d","e","r","n"," ","e","r","a">>

\* eraOf with the upper end of every halving window included
eraOf_inclusiveEnd(h) ==
    IF h < 100000 THEN EARLY_BITCOIN
    ELSE IF h >= 210000 /\ h <= 211000 THEN FIRST_HALVING
    ELSE IF h >= 420000 /\ h <= 421000 THEN SECOND_HALVING
    ELSE IF h >= 630000 /\ h <= 631000 THEN THIRD_HALVING
    ELSE IF h >= 840000 /\ h <= 841000 THEN FOURTH_HALVING
    ELSE IF h > 800000 THEN MODERN_ERA
    ELSE <<>>

\* eraOf with the catch-all branch tested before the fourth halving window
eraOf_modernFirst(h) ==
    IF h < 100000 THEN EARLY_BITCOIN
    ELSE IF h >= 210000 /\ h < 211000 THEN FIRST_HALVING
    ELSE IF h >= 420000 /\ h < 421000 THEN SECOND_HALVING
    ELSE IF h >= 630000 /\ h < 631000 THEN THIRD_HALVING
    ELSE IF h > 800000 THEN MODERN_ERA
    ELSE IF h >= 840000 /\ h < 841000 THEN FOURTH_HALVING
    ELSE <<>>

\* the if / else-if chain over the block height; the empty string when no
\* branch is taken
eraOf(h) ==
    IF h < 100000 THEN EARLY_BITCOIN
    ELSE IF h >= 210000 /\ h < 211000 THEN FIRST_HALVING
    ELSE IF h >= 420000 /\ h < 421000 THEN SECOND_HALVING
    ELSE IF h >= 630000 /\ h < 631000 THEN THIRD_HALVING
    ELSE IF h >= 840000 /\ h < 841000 THEN FOURTH_HALVING
    ELSE IF h > 800000 THEN MODERN_ERA
    ELSE <<>>

\* generateBnsPrompt that pushes the trailer before the era label
generateBnsPrompt_trailerFirst(root, h) ==
    LET found == findBnsWords(root, PROMPT_WORDS)
        bnsWords == joinWith(Tuple(wordsOf(found)), SPACE)
        firstByte == parseInt16(substring(root, 0, 2))
        genre == elementAt(genres, jsMod(firstByte, Len(genres)))
        lastByte == parseInt16(substring(root, 62, 64))
        mood == elementAt(moods, jsMod(lastByte, Len(moods)))
        era == eraOf(h)
        parts == <<BLOCK_PREFIX \o numberToString(h), genre, mood, bnsWords>>
                 \o <<TRAILER>>
                 \o (IF era # <<>> THEN <<era>> ELSE <<>>)
    IN  trim(joinWith(parts, SPACE))

\* generateBnsPrompt that pushes the era label even when it is empty
generateBnsPrompt_eraAlways(root, h) ==
    LET found == findBnsWords(root, PROMPT_WORDS)
        bnsWords == joinWith(Tuple(wordsOf(found)), SPACE)
        firstByte == parseInt16(substring(root, 0, 2))
        genre == elementAt(genres, jsMod(firstByte, Len(genres)))
        lastByte == parseInt16(substring(root, 62, 64))
        mood == elementAt(moods, jsMod(lastByte, Len(moods)))
        era == eraOf(h)
        parts == <<BLOCK_PREFIX \o numberToString(h), genre, mood, bnsWords>>
                 \o <<era>>
                 \o <<TRAILER>>
    IN  trim(joinWith(parts, SPACE))

generateBnsPrompt(root, h) ==
    LET found == findBnsWords(root, PROMPT_WORDS)
        bnsWords == joinWith(Tuple(wordsOf(found)), SPACE)
        firstByte == parseInt16(substring(root, 0, 2))
        genre == elementAt(genres, jsMod(firstByte, Len(genres)))
        lastByte == parseInt16(substring(root, 62, 64))
        mood == elementAt(moods, jsMod(lastByte, Len(moods)))
        era == eraOf(h)
        parts == <<BLOCK_PREFIX \o numberToString(h), genre, mood, bnsWords>>
                 \o (IF era # <<>> THEN <<era>> ELSE <<>>)
                 \o <<TRAILER>>
    IN  trim(joinWith(parts, SPACE))

----------------------------------------------------------------------------
(* Inputs                                                                  *)

\* all sequences over S of length 0..n
StringsUpTo(S, n) == UNION {[1..k -> S] : k \in 0..n}

Range(s) == {s[k] : k \in 1..Len(s)}

\* characters of hex inputs: the sixteen hex digits and one that is none
InputChars == Range(HEX_DIGITS) \cup {"g"}
\* filler bytes around the byte under test: 0x00 and 0xff
FillBytes == {<<"0","0">>, <<"f","f">>}
\* nothing, or a dangling half byte that makes the length odd
Tails == {<<>>, <<"7">>}

RECURSIVE hexInput(_, _, _, _)
\* n bytes, all of them the filler f except byte number i, which is pair
hexInput(n, i, pair, f) ==
    IF n = 0 THEN <<>>
    ELSE hexInput(n - 1, i, pair, f) \o (IF n = i THEN pair ELSE f)

HexInputs ==
    {hexInput(n, i, <<c1, c2>>, f) \o t :
        n \in 0..MaxBytes, i \in 1..MaxBytes, c1 \in InputChars,
        c2 \in InputChars, f \in FillBytes, t \in Tails}

\* characters handed to calculateCharShift: the alphabet, upper-case
\* letters and characters outside the alphabet
ShiftChars == Range(TLD_ALPHABET) \cup {"A", "Z", "_", " "}

\* characters of the strings handed to findWordMatch
MatchChars == {"a", "c", "-"}

\* characters of the strings handed to findWordMatch when a character outside
\* TLD_ALPHABET is among them: a and s are 18 apart, _ is not in the alphabet
SentinelChars == {"a", "s", "_"}

\* bytes of the merkle roots handed to findBnsWords:
\* 0x30 = 48 -> l, 0x58 = 88 -> o, 0xed = 237 -> p
RootBytes == {<<"3","0">>, <<"5","8">>, <<"e","d">>}

RECURSIVE flatten(_)
flatten(ss) == IF ss = <<>> THEN <<>> ELSE Head(ss) \o flatten(Tail(ss))

MerkleRoots == {flatten(bs) : bs \in StringsUpTo(RootBytes, MaxRootBytes)}

MaxWordsArgs == {0, 1, PROMPT_WORDS, DEFAULT_MAX_WORDS, Len(BNS_WORD_LIST)}

\* the length of a merkle root in bytes (64 hex characters)
ROOT_BYTES == 32

\* first and last bytes of the roots handed to generateBnsPrompt: one value
\* for each remainder modulo 8 (0x00, 0x09, 0x12, 0x1b, 0x64, 0x8d, 0xf6, 0xff)
MarkerBytes ==
    <<<<"0","0">>, <<"0","9">>, <<"1","2">>, <<"1","b">>,
      <<"6","4">>, <<"8","d">>, <<"f","6">>, <<"f","f">>>>

\* the bytes between the first and the last one, repeated cyclically:
\* 0x30 0x58 0x58 0xed 0x00 (l o o p a) or 0xff 0x25 0x4a (7 a a)
FillPatterns ==
    {<<<<"3","0">>, <<"5","8">>, <<"5","8">>, <<"e","d">>, <<"0","0">>>>,
     <<<<"f","f">>, <<"2","5">>, <<"4","a">>>>}

\* a root of n bytes: first byte f, last byte l, the pattern in between
promptRoot(n, f, l, pattern) ==
    flatten(Tuple([k \in 1..n |->
        IF k = 1 THEN f
        ELSE IF k = n THEN l
        ELSE pattern[((k - 2) % Len(pattern)) + 1]]))

\* the two patterns between a given first and last byte
WithPatterns(n, i, j) ==
    {promptRoot(n, MarkerBytes[i], MarkerBytes[j], pattern) : pattern \in FillPatterns}

\* short roots: every first and last byte, 1..MaxShortRoot bytes
ShortRoots ==
    UNION {WithPatterns(n, i, j) :
        n \in 1..MaxShortRoot, i \in 1..Len(MarkerBytes), j \in 1..Len(MarkerBytes)}

\* each first byte paired with two last bytes
MarkerPairs ==
    {p \in (1..Len(MarkerBytes)) \X (1..Len(MarkerBytes)) :
        p[2] \in {p[1], ((p[1] + 2) % Len(MarkerBytes)) + 1}}

\* roots of 64 hex characters
FullRoots == UNION {WithPatterns(ROOT_BYTES, p[1], p[2]) : p \in MarkerPairs}

\* roots one byte shorter and one byte longer than a merkle root
NearRoots ==
    UNION {WithPatterns(n, i, ((i + 2) % Len(MarkerBytes)) + 1) :
        n \in {ROOT_BYTES - 1, ROOT_BYTES + 1}, i \in {1, 4, 6}}

\* the two roots checked against every height
CoreRoots == WithPatterns(ROOT_BYTES, 2, 5)

PromptRoots == ShortRoots \cup FullRoots \cup NearRoots

\* block heights at and around every boundary of the era chain
EraHeights ==
    {0, 1, 99999, 100000, 150000, 209999, 210000, 210500, 210999, 211000,
     419999, 420000, 420500, 420999, 421000, 629999, 630000, 630500, 630999,
     631000, 799999, 800000, 800001, 839999, 840000, 840500, 840999, 841000,
     900000}

\* the heights the other roots are checked against
CoreHeights == {0, 840000}

HeightsFor(root) == IF root \in CoreRoots THEN EraHeights ELSE CoreHeights

----------------------------------------------------------------------------------------------------------------------------------------
(* The parts of the application at rest                                     *)

\* no fetchWithRetry call has been made
RetryIdle ==
    /\ attempts = 0 /\ attempt = 0 /\ retryPc = "idle" /\ fetchCalls = 0
    /\ caught = <<>> /\ waited = 0 /\ response = null /\ thrown = null

\* no BNS function is being called
BnsIdle ==
    /\ pc = "done" /\ merkleRoot = <<>> /\ tldAlpha = <<>>
    /\ source = "a" /\ target = "a" /\ shift = 0
    /\ word = <<>> /\ match = null
    /\ maxWords = 0 /\ matches = <<>>
    /\ height = 0 /\ prompt = <<>>

\* pollingRef.current === null
NO_TIMER == 0

\* useSamplePackGenerator as useState and useRef initialise it
HookMounted ==
    /\ isGenerating = FALSE /\ currentJob = null /\ generationResult = null
    /\ error = null /\ progress = 0
    /\ pollingRef = NO_TIMER /\ pollingIntervalRef = 2000 /\ consecutiveErrorsRef = 0
    /\ timers = {} /\ polls = {} /\ creating = 0 /\ deleting = FALSE
    /\ jobsCreated = 0 /\ pollsIssued = 0 /\ lastPollDelay = 0 /\ errorsAtPoll = 0
    /\ cancelled = "no" /\ atCancel = <<>>

HookIdle == HookMounted /\ isBackendHealthy = "null"

STORAGE_KEY_PREFIX == "inspira-studio-"

\* the packs whose studio is opened
PackIds == {"a", "b"}

StorageKeys == {STORAGE_KEY_PREFIX \o p : p \in PackIds}

\* no studio is open and nothing is stored
StudioIdle ==
    /\ localStorage = [k \in StorageKeys |-> null]
    /\ packId = "" /\ settings = null /\ hasLoadedFromStorage = FALSE
    /\ studioPc = "unmounted" /\ clock = 0
    /\ startedEmpty = FALSE /\ lastChange = null

\* useBlockchainStore as create() initialises it
StoreCreated ==
    /\ currentBlock = null /\ bnsPrompt = <<>> /\ bnsMatches = <<>>
    /\ isLoading = FALSE /\ storeError = null
    /\ calls = <<>> /\ disturbed = FALSE

AppIdle == RetryIdle /\ HookIdle /\ StudioIdle /\ StoreCreated /\ bnsTable = <<>>

----------------
(* Specifications: one per function, the inputs drawn by Init               *)

InitAlpha ==
    /\ AppIdle
    /\ height = 0 /\ prompt = <<>>
    /\ pc = "merkleToTldAlpha"
    /\ merkleRoot \in HexInputs
    /\ tldAlpha = <<>>
    /\ source = "a" /\ target = "a" /\ shift = 0
    /\ word = <<>> /\ match = null
    /\ maxWords = 0 /\ matches = <<>>

CallMerkleToTldAlpha ==
    /\ pc = "merkleToTldAlpha"
    /\ tldAlpha' = merkleToTldAlpha(merkleRoot)
    /\ pc' = "done"
    /\ UNCHANGED <<merkleRoot, source, target, shift, word, match, maxWords, matches,
                 height, prompt>>
    /\ UNCHANGED appVars

NextAlpha == CallMerkleToTldAlpha

SpecAlpha == InitAlpha /\ [][NextAlpha]_vars

InitShift ==
    /\ AppIdle
    /\ height = 0 /\ prompt = <<>>
    /\ pc = "calculateCharShift"
    /\ source \in ShiftChars
    /\ target \in ShiftChars
    /\ shift = 0
    /\ merkleRoot = <<>> /\ tldAlpha = <<>>
    /\ word = <<>> /\ match = null
    /\ maxWords = 0 /\ matches = <<>>

CallCalculateCharShift ==
    /\ pc = "calculateCharShift"
    /\ shift' = calculateCharShift(source, target)
    /\ pc' = "done"
    /\ UNCHANGED <<merkleRoot, tldAlpha, source, target, word, match, maxWords, matches,
                 height, prompt>>
    /\ UNCHANGED appVars

NextShift == CallCalculateCharShift

SpecShift == InitShift /\ [][NextShift]_vars

InitMatch ==
    /\ AppIdle
    /\ height = 0 /\ prompt = <<>>
    /\ pc = "findWordMatch"
    /\ tldAlpha \in StringsUpTo(MatchChars, MaxAlphaLen)
    /\ word \in StringsUpTo(MatchChars, MaxWordLen)
    /\ match = null
    /\ merkleRoot = <<>>
    /\ source = "a" /\ target = "a" /\ shift = 0
    /\ maxWords = 0 /\ matches = <<>>

CallFindWordMatch ==
    /\ pc = "findWordMatch"
    /\ match' = findWordMatch(tldAlpha, word)
    /\ pc' = "done"
    /\ UNCHANGED <<merkleRoot, tldAlpha, source, target, shift, word, maxWords, matches,
                 height, prompt>>
    /\ UNCHANGED appVars

NextMatch == CallFindWordMatch

SpecMatch == InitMatch /\ [][NextMatch]_vars

InitSentinel ==
    /\ AppIdle
    /\ height = 0 /\ prompt = <<>>
    /\ pc = "findWordMatch"
    /\ tldAlpha \in StringsUpTo(SentinelChars, MaxAlphaLen)
    /\ word \in StringsUpTo(SentinelChars \cap Range(TLD_ALPHABET), MaxWordLen)
    /\ match = null
    /\ merkleRoot = <<>>
    /\ source = "a" /\ target = "a" /\ shift = 0
    /\ maxWords = 0 /\ matches = <<>>

NextSentinel == CallFindWordMatch

SpecSentinel == InitSentinel /\ [][NextSentinel]_vars

InitWords ==
    /\ AppIdle
    /\ height = 0 /\ prompt = <<>>
    /\ pc = "findBnsWords"
    /\ merkleRoot \in MerkleRoots
    /\ maxWords \in MaxWordsArgs
    /\ matches = <<>>
    /\ tldAlpha = <<>>
    /\ source = "a" /\ target = "a" /\ shift = 0
    /\ word = <<>> /\ match = null

CallFindBnsWords ==
    /\ pc = "findBnsWords"
    /\ matches' = findBnsWords(merkleRoot, maxWords)
    /\ pc' = "done"
    /\ UNCHANGED <<merkleRoot, tldAlpha, source, target, shift, word, match, maxWords,
                 height, prompt>>
    /\ UNCHANGED appVars

NextWords == CallFindBnsWords

SpecWords == InitWords /\ [][NextWords]_vars

InitPrompt ==
    /\ AppIdle
    /\ pc = "generateBnsPrompt"
    /\ merkleRoot \in PromptRoots
    /\ height \in HeightsFor(merkleRoot)
    /\ prompt = <<>>
    /\ tldAlpha = <<>>
    /\ source = "a" /\ target = "a" /\ shift = 0
    /\ word = <<>> /\ match = null
    /\ maxWords = 0 /\ matches = <<>>

CallGenerateBnsPrompt ==
    /\ pc = "generateBnsPrompt"
    /\ prompt' = generateBnsPrompt(merkleRoot, height)
    /\ pc' = "done"
    /\ UNCHANGED <<merkleRoot, tldAlpha, source, target, shift, word, match,
                   maxWords, matches, height>>
    /\ UNCHANGED appVars

NextPrompt == CallGenerateBnsPrompt

SpecPrompt == InitPrompt /\ [][NextPrompt]_vars

----------------------------------------------------------------------------------------------------------------------------------------
(* SamplePackerAPI.fetchWithRetry                                           *)

\* the largest attempts argument tried
MaxAttempts == 3

\* this.retryDelay as the constructor sets it, in milliseconds
RETRY_DELAY == 1000

CANNOT_CONNECT == "Cannot connect to backend server. Please ensure the SamplePacker gateway is running on port 3003."
REQUEST_TIMEOUT == "Request timeout - backend server is not responding."
UNKNOWN_NETWORK_ERROR == "Unknown network error occurred"
FAILED_AFTER_ATTEMPTS == "Failed to fetch after multiple attempts"

\* what fetch can throw: a network TypeError whose message names fetch, one
\* whose message does not, the AbortError of the 10 second timeout, and a
\* thrown value that is not an Error
FetchErrors ==
    {[isError |-> TRUE, name |-> "TypeError", message |-> "Failed to fetch",
      includesFetch |-> TRUE],
     [isError |-> TRUE, name |-> "TypeError", message |-> "Load failed",
      includesFetch |-> FALSE],
     [isError |-> TRUE, name |-> "AbortError", message |-> "The operation was aborted.",
      includesFetch |-> FALSE],
     [isError |-> FALSE, name |-> "", message |-> "", includesFetch |-> FALSE]}

\* new Error(message)
Error(message) == [isNull |-> FALSE, message |-> message]

\* isLastAttempt taken one attempt too late
isLastAttempt_offByOne(a, n) == a = n + 1

\* const isLastAttempt = attempt === attempts
isLastAttempt(a, n) == a = n

\* the catch block up to the retry delay: the message of the error it throws,
\* or null when it throws nothing
catchThrows(err, last) ==
    IF err.isError
    THEN IF err.name = "TypeError" /\ err.includesFetch
         THEN (IF last THEN Error(CANNOT_CONNECT) ELSE null)
         ELSE IF err.name = "AbortError"
         THEN (IF last THEN Error(REQUEST_TIMEOUT) ELSE null)
         ELSE IF last THEN Error(err.message)
         ELSE null
    ELSE IF last THEN Error(UNKNOWN_NETWORK_ERROR)
    ELSE null

InitRetry ==
    /\ BnsIdle /\ HookIdle /\ StudioIdle /\ StoreCreated /\ bnsTable = <<>>
    /\ attempts \in 0..MaxAttempts
    /\ attempt = 1
    /\ retryPc = "loop"
    /\ fetchCalls = 0 /\ caught = <<>> /\ waited = 0
    /\ response = null /\ thrown = null

\* the loop test succeeds and the body runs up to the await of fetch
IssueFetch ==
    /\ retryPc = "loop"
    /\ attempt <= attempts
    /\ fetchCalls' = fetchCalls + 1
    /\ retryPc' = "fetch"
    /\ UNCHANGED <<attempts, attempt, caught, waited, response, thrown>>
    /\ UNCHANGED <<bnsVars, hookVars, studioVars, storeVars>>

\* the loop test fails: the throw after the loop
FallThrough ==
    /\ retryPc = "loop"
    /\ ~(attempt <= attempts)
    /\ thrown' = Error(FAILED_AFTER_ATTEMPTS)
    /\ retryPc' = "rejected"
    /\ UNCHANGED <<attempts, attempt, fetchCalls, caught, waited, response>>
    /\ UNCHANGED <<bnsVars, hookVars, studioVars, storeVars>>

\* fetch resolves, with an ok or a not-ok response: the response is returned
FetchResolves ==
    /\ retryPc = "fetch"
    /\ \E ok \in BOOLEAN : response' = [ok |-> ok, call |-> fetchCalls]
    /\ retryPc' = "returned"
    /\ UNCHANGED <<attempts, attempt, fetchCalls, caught, waited, thrown>>
    /\ UNCHANGED <<bnsVars, hookVars, studioVars, storeVars>>

\* fetch rejects: the catch block, which throws, or goes on to the retry
\* delay, or (on a last attempt that throws nothing) to the next loop test
FetchRejects ==
    /\ retryPc = "fetch"
    /\ \E err \in FetchErrors :
          LET last == isLastAttempt(attempt, attempts)
              message == catchThrows(err, last)
          IN  /\ caught' = Append(caught, err.name)
              /\ IF message # null
                 THEN thrown' = message /\ retryPc' = "rejected" /\ attempt' = attempt
                 ELSE IF ~last
                 THEN thrown' = thrown /\ retryPc' = "wait" /\ attempt' = attempt
                 ELSE thrown' = thrown /\ retryPc' = "loop" /\ attempt' = attempt + 1
    /\ UNCHANGED <<attempts, fetchCalls, waited, response>>
    /\ UNCHANGED <<bnsVars, hookVars, studioVars, storeVars>>

\* the retry delay of retryDelay * attempt elapses; attempt++
DelayElapsed ==
    /\ retryPc = "wait"
    /\ waited' = waited + RETRY_DELAY * attempt
    /\ attempt' = attempt + 1
    /\ retryPc' = "loop"
    /\ UNCHANGED <<attempts, fetchCalls, caught, response, thrown>>
    /\ UNCHANGED <<bnsVars, hookVars, studioVars, storeVars>>

NextRetry ==
    \/ IssueFetch
    \/ FallThrough
    \/ FetchResolves
    \/ FetchRejects
    \/ DelayElapsed

\* every fetch settles (the 10 second timeout aborts it at the latest) and
\* every retry delay elapses
SpecRetry == InitRetry /\ [][NextRetry]_vars /\ WF_vars(NextRetry)

----------------------------------------------------------------------------
(* useSamplePackGenerator: generateSamplePack, pollJobStatus,               *)
(* cancelGeneration and the interval timer that drives the polling          *)

\* the largest number of generateSamplePack calls
MaxJobs == 2

\* the largest number of pollJobStatus calls the timers make
MaxPolls == 5

\* the largest number of pollJobStatus calls awaiting a reply at once
MaxInFlight == 2

INITIAL_INTERVAL == 2000
MAX_INTERVAL == 10000
MAX_CONSECUTIVE_ERRORS == 3
ESTIMATED_DURATION_MS == 3 * 60 * 1000
PROGRESS_CAP == 95

BACKEND_DOWN == "Cannot connect to backend server. Please ensure the SamplePacker gateway is running on port 3003."
MANIFEST_FAILED == "Generation completed but failed to retrieve results"
GENERATION_FAILED == "Generation failed: "
CONNECTION_LOST == "Connection lost: "

\* the job createSamplePack resolves with
newJob(id) ==
    [isNull |-> FALSE, job_id |-> id, status |-> "queued",
     hasProgress |-> FALSE, progress |-> 0, elapsed_time |-> 0]

\* what getJobStatus can resolve with, for the job with the given id
JobReplies(id) ==
    {[isNull |-> FALSE, job_id |-> id, status |-> "running",
      hasProgress |-> FALSE, progress |-> 0, elapsed_time |-> 90000],
     [isNull |-> FALSE, job_id |-> id, status |-> "completed",
      hasProgress |-> TRUE, progress |-> 100, elapsed_time |-> 0],
     [isNull |-> FALSE, job_id |-> id, status |-> "failed",
      hasProgress |-> FALSE, progress |-> 0, elapsed_time |-> 400000],
     [isNull |-> FALSE, job_id |-> id, status |-> "timeout",
      hasProgress |-> FALSE, progress |-> 0, elapsed_time |-> 0]}

\* the messages getJobStatus and createSamplePack can reject with
ApiErrors == {CANNOT_CONNECT, REQUEST_TIMEOUT}

\* stopPolling: the timers left after clearInterval(pollingRef.current)
stopPolling == {t \in timers : t.id # pollingRef}

\* the progress pollJobStatus shows for a job
progressOf(job, shown) ==
    IF job.hasProgress THEN job.progress
    ELSE IF job.elapsed_time # 0
         THEN Min((job.elapsed_time * 100) \div ESTIMATED_DURATION_MS, PROGRESS_CAP)
    ELSE shown

\* consecutiveErrorsRef.current <= 3
withinErrorLimit(n) == n <= MAX_CONSECUTIVE_ERRORS

\* Math.min(pollingIntervalRef.current * 2, 10000)
backoff(interval) == Min(interval * 2, MAX_INTERVAL)

InitPolling ==
    /\ BnsIdle /\ RetryIdle /\ StudioIdle /\ StoreCreated /\ bnsTable = <<>>
    /\ HookMounted
    /\ isBackendHealthy \in {"null", "true", "false"}

\* generateSamplePack while the health check has failed: the throw is caught
GenerateUnhealthy ==
    /\ isBackendHealthy = "false"
    /\ jobsCreated + creating < MaxJobs
    /\ error' = Error(BACKEND_DOWN)
    /\ isGenerating' = FALSE
    /\ cancelled' = "no" /\ atCancel' = <<>>
    /\ UNCHANGED <<currentJob, generationResult, progress, isBackendHealthy, pollingRef,
                   pollingIntervalRef, consecutiveErrorsRef, timers, polls, creating,
                   deleting, jobsCreated, pollsIssued, lastPollDelay, errorsAtPoll>>
    /\ UNCHANGED <<bnsVars, retryVars, studioVars, storeVars>>

\* generateSamplePack up to the await of createSamplePack
GenerateSamplePack ==
    /\ isBackendHealthy # "false"
    /\ jobsCreated + creating < MaxJobs
    /\ isGenerating' = TRUE
    /\ error' = null
    /\ progress' = 0
    /\ currentJob' = null
    /\ generationResult' = null
    /\ consecutiveErrorsRef' = 0
    /\ pollingIntervalRef' = INITIAL_INTERVAL
    /\ creating' = creating + 1
    /\ cancelled' = "no" /\ atCancel' = <<>>
    /\ UNCHANGED <<isBackendHealthy, pollingRef, timers, polls, deleting, jobsCreated,
                   pollsIssued, lastPollDelay, errorsAtPoll>>
    /\ UNCHANGED <<bnsVars, retryVars, studioVars, storeVars>>

\* createSamplePack resolves: setCurrentJob and setInterval with the delay
\* pollingIntervalRef holds at this moment
CreateResolves ==
    /\ creating > 0
    /\ creating' = creating - 1
    /\ jobsCreated' = jobsCreated + 1
    /\ currentJob' = newJob(jobsCreated + 1)
    /\ pollingRef' = jobsCreated + 1
    /\ timers' = timers \cup {[id |-> jobsCreated + 1, delay |-> pollingIntervalRef,
                               jobId |-> jobsCreated + 1, fired |-> FALSE]}
    /\ UNCHANGED <<isGenerating, generationResult, error, progress, isBackendHealthy,
                   pollingIntervalRef, consecutiveErrorsRef, polls, deleting,
                   pollsIssued, lastPollDelay, errorsAtPoll, cancelled, atCancel>>
    /\ UNCHANGED <<bnsVars, retryVars, studioVars, storeVars>>

\* createSamplePack rejects: the catch block of generateSamplePack
CreateRejects ==
    /\ creating > 0
    /\ creating' = creating - 1
    /\ \E message \in ApiErrors : error' = Error(message)
    /\ isGenerating' = FALSE
    /\ UNCHANGED <<currentJob, generationResult, progress, isBackendHealthy, pollingRef,
                   pollingIntervalRef, consecutiveErrorsRef, timers, polls, deleting,
                   jobsCreated, pollsIssued, lastPollDelay, errorsAtPoll, cancelled,
                   atCancel>>
    /\ UNCHANGED <<bnsVars, retryVars, studioVars, storeVars>>

\* an interval timer fires, its delay after it was set or last fired, and
\* calls pollJobStatus, which awaits getJobStatus
TimerFires ==
    /\ pollsIssued < MaxPolls
    /\ Cardinality(polls) < MaxInFlight
    /\ \E t \in timers :
          /\ polls' = polls \cup {[id |-> pollsIssued + 1, jobId |-> t.jobId,
                                   stage |-> "status", job |-> null]}
          /\ timers' = (timers \ {t}) \cup {[t EXCEPT !.fired = TRUE]}
          /\ lastPollDelay' = IF t.fired THEN t.delay ELSE lastPollDelay
    /\ pollsIssued' = pollsIssued + 1
    /\ errorsAtPoll' = consecutiveErrorsRef
    /\ UNCHANGED <<hookState, isBackendHealthy, pollingRef, pollingIntervalRef,
                   consecutiveErrorsRef, creating, deleting, jobsCreated, cancelled,
                   atCancel>>
    /\ UNCHANGED <<bnsVars, retryVars, studioVars, storeVars>>

\* getJobStatus resolves: the try block of pollJobStatus, up to the await of
\* getJobManifest when the job is completed
PollResolves ==
    /\ \E p \in polls : \E job \in JobReplies(p.jobId) :
          /\ p.stage = "status"
          /\ currentJob' = job
          /\ consecutiveErrorsRef' = 0
          /\ pollingIntervalRef' =
                IF pollingIntervalRef > INITIAL_INTERVAL THEN INITIAL_INTERVAL
                ELSE pollingIntervalRef
          /\ progress' = progressOf(job, progress)
          /\ IF job.status = "completed"
             THEN /\ timers' = stopPolling /\ pollingRef' = NO_TIMER
                  /\ polls' = (polls \ {p}) \cup {[p EXCEPT !.stage = "manifest", !.job = job]}
                  /\ UNCHANGED <<error, isGenerating>>
             ELSE IF job.status \in {"failed", "timeout"}
             THEN /\ timers' = stopPolling /\ pollingRef' = NO_TIMER
                  /\ error' = Error(GENERATION_FAILED \o job.status)
                  /\ isGenerating' = FALSE
                  /\ polls' = polls \ {p}
             ELSE /\ polls' = polls \ {p}
                  /\ UNCHANGED <<timers, pollingRef, error, isGenerating>>
    /\ UNCHANGED <<generationResult, isBackendHealthy, creating, deleting, jobsCreated,
                   pollsIssued, lastPollDelay, errorsAtPoll, cancelled, atCancel>>
    /\ UNCHANGED <<bnsVars, retryVars, studioVars, storeVars>>

\* getJobManifest settles: the result is stored, or the inner catch block
\* sets the error; then setIsGenerating(false)
ManifestSettles ==
    /\ \E p \in polls :
          /\ p.stage = "manifest"
          /\ polls' = polls \ {p}
          /\ \/ /\ generationResult' = [isNull |-> FALSE, job |-> p.job]
                /\ progress' = 100
                /\ error' = error
             \/ /\ error' = Error(MANIFEST_FAILED)
                /\ UNCHANGED <<generationResult, progress>>
    /\ isGenerating' = FALSE
    /\ UNCHANGED <<currentJob, isBackendHealthy, pollingRef, pollingIntervalRef,
                   consecutiveErrorsRef, timers, creating, deleting, jobsCreated,
                   pollsIssued, lastPollDelay, errorsAtPoll, cancelled, atCancel>>
    /\ UNCHANGED <<bnsVars, retryVars, studioVars, storeVars>>

\* getJobStatus rejects: the catch block of pollJobStatus
PollRejects ==
    /\ \E p \in polls : \E message \in ApiErrors :
          /\ p.stage = "status"
          /\ polls' = polls \ {p}
          /\ consecutiveErrorsRef' = consecutiveErrorsRef + 1
          /\ IF withinErrorLimit(consecutiveErrorsRef + 1)
             THEN /\ pollingIntervalRef' = backoff(pollingIntervalRef)
                  /\ UNCHANGED <<timers, pollingRef, error, isGenerating>>
             ELSE /\ timers' = stopPolling /\ pollingRef' = NO_TIMER
                  /\ error' = Error(CONNECTION_LOST \o message)
                  /\ isGenerating' = FALSE
                  /\ pollingIntervalRef' = pollingIntervalRef
    /\ UNCHANGED <<currentJob, generationResult, progress, isBackendHealthy, creating,
                   deleting, jobsCreated, pollsIssued, lastPollDelay, errorsAtPoll,
                   cancelled, atCancel>>
    /\ UNCHANGED <<bnsVars, retryVars, studioVars, storeVars>>

\* cancelGeneration without a current job: it completes at once
CancelNoJob ==
    /\ ~deleting
    /\ currentJob = null
    /\ timers' = stopPolling /\ pollingRef' = NO_TIMER
    /\ isGenerating' = FALSE
    /\ currentJob' = null /\ generationResult' = null /\ progress' = 0
    /\ cancelled' = "yes"
    /\ atCancel' = <<FALSE, null, null, error, 0>>
    /\ UNCHANGED <<error, isBackendHealthy, pollingIntervalRef, consecutiveErrorsRef,
                   polls, creating, deleting, jobsCreated, pollsIssued, lastPollDelay,
                   errorsAtPoll>>
    /\ UNCHANGED <<bnsVars, retryVars, studioVars, storeVars>>

\* cancelGeneration with a current job, up to the await of deleteJob
CancelGeneration ==
    /\ ~deleting
    /\ currentJob # null
    /\ timers' = stopPolling /\ pollingRef' = NO_TIMER
    /\ isGenerating' = FALSE
    /\ deleting' = TRUE
    /\ cancelled' = "pending" /\ atCancel' = <<>>
    /\ UNCHANGED <<currentJob, generationResult, error, progress, isBackendHealthy,
                   pollingIntervalRef, consecutiveErrorsRef, polls, creating,
                   jobsCreated, pollsIssued, lastPollDelay, errorsAtPoll>>
    /\ UNCHANGED <<bnsVars, retryVars, studioVars, storeVars>>

\* deleteJob settles (a rejection is only logged): the rest of cancelGeneration
DeleteSettles ==
    /\ deleting
    /\ deleting' = FALSE
    /\ currentJob' = null /\ generationResult' = null /\ progress' = 0
    /\ IF cancelled = "pending"
       THEN cancelled' = "yes" /\ atCancel' = <<isGenerating, null, null, error, 0>>
       ELSE UNCHANGED <<cancelled, atCancel>>
    /\ UNCHANGED <<isGenerating, error, isBackendHealthy, pollingRef, pollingIntervalRef,
                   consecutiveErrorsRef, timers, polls, creating, jobsCreated,
                   pollsIssued, lastPollDelay, errorsAtPoll>>
    /\ UNCHANGED <<bnsVars, retryVars, studioVars, storeVars>>

NextPolling ==
    \/ GenerateUnhealthy
    \/ GenerateSamplePack
    \/ CreateResolves
    \/ CreateRejects
    \/ TimerFires
    \/ PollResolves
    \/ ManifestSettles
    \/ PollRejects
    \/ CancelNoJob
    \/ CancelGeneration
    \/ DeleteSettles

SpecPolling == InitPolling /\ [][NextPolling]_vars

----------------------------------------------------------------------------
(* useStudioSettings and the cleanup effect of InspiraStudio                *)

\* the largest reading of the clock
MaxClock == 3

\* a number; NaN is the number whose value is NaN
Num(v) == [isNull |-> FALSE, value |-> v]

\* the volumes a fader or parseFloat of its value can give
Volumes == {Num(0), Num(80), Num(NaN)}

StemIds == {"drums", "bass"}

\* the stems of a mix as a studio first shows them
defaultStems ==
    <<[id |-> "drums", volume |-> Num(80), isMuted |-> FALSE],
      [id |-> "bass", volume |-> Num(80), isMuted |-> FALSE]>>

\* a mix with the given fields
mixer(p, volume, stems, modified) ==
    [isNull |-> FALSE, packId |-> p, masterVolume |-> volume, stems |-> stems,
     lastModified |-> modified]

\* JSON.stringify of a number: NaN is written as null
numberToJson(n) == IF n # null /\ n.value = NaN THEN null ELSE n

\* JSON.stringify of a mix: the text, given by the value it denotes
stringify(m) ==
    [isNull |-> FALSE, valid |-> TRUE,
     value |-> [m EXCEPT
        !.masterVolume = numberToJson(m.masterVolume),
        !.stems = Tuple([k \in 1..Len(m.stems) |->
                     [m.stems[k] EXCEPT !.volume = numberToJson(m.stems[k].volume)]])]]

\* a stored string that is not JSON
CORRUPT == [isNull |-> FALSE, valid |-> FALSE, value |-> null]

\* what localStorage can hold for a pack when the studio is opened
StoredAtStart(p) ==
    {null, CORRUPT, stringify(mixer(p, Num(0), defaultStems, 0))}

\* { ...stem, ...updates }
spread(stem, updates) == [f \in DOMAIN stem |-> IF f \in DOMAIN updates THEN updates[f] ELSE stem[f]]

\* the Partial<StemSettings> the mixer passes to updateStemSettings
StemUpdates ==
    {[volume |-> v] : v \in Volumes} \cup {[isMuted |-> TRUE]}

storageKey == STORAGE_KEY_PREFIX \o packId

InitStudio ==
    /\ BnsIdle /\ RetryIdle /\ HookIdle /\ StoreCreated /\ bnsTable = <<>>
    /\ localStorage \in [StorageKeys -> UNION {StoredAtStart(p) : p \in PackIds}]
    /\ \A p \in PackIds : localStorage[STORAGE_KEY_PREFIX \o p] \in StoredAtStart(p)
    /\ packId \in PackIds \cup {""}
    /\ settings = null /\ hasLoadedFromStorage = FALSE
    /\ studioPc = "mounted" /\ clock = 1
    /\ startedEmpty = (packId # "" /\ localStorage[STORAGE_KEY_PREFIX \o packId] = null)
    /\ lastChange = null

\* the load effect without a packId: it returns at once
LoadWithoutPack ==
    /\ studioPc = "mounted"
    /\ packId = ""
    /\ studioPc' = "ready"
    /\ UNCHANGED <<localStorage, packId, settings, hasLoadedFromStorage, clock,
                   startedEmpty, lastChange>>
    /\ UNCHANGED <<bnsVars, retryVars, hookVars, storeVars>>

\* the load effect: getItem, JSON.parse (a failure is only logged), setSettings
LoadSettings ==
    /\ studioPc = "mounted"
    /\ packId # ""
    /\ LET stored == localStorage[storageKey]
       IN  settings' = IF stored # null /\ stored.valid THEN stored.value ELSE settings
    /\ hasLoadedFromStorage' = TRUE
    /\ studioPc' = "ready"
    /\ UNCHANGED <<localStorage, packId, clock, startedEmpty, lastChange>>
    /\ UNCHANGED <<bnsVars, retryVars, hookVars, storeVars>>

\* saveSettings(newSettings): the changes to localStorage and settings
saved(newSettings) ==
    LET toStore == [newSettings EXCEPT !.packId = packId, !.lastModified = clock]
    IN  IF packId = ""
        THEN [localStorage |-> localStorage, settings |-> settings]
        ELSE [localStorage |-> [localStorage EXCEPT ![storageKey] = stringify(toStore)],
              settings |-> toStore]

\* new Date() reads a later time at a later call
Tick == clock' = Min(clock + 1, MaxClock)

SaveSettings ==
    /\ studioPc = "ready"
    /\ \E volume \in Volumes :
          LET result == saved(mixer(packId, volume, defaultStems, clock))
          IN  localStorage' = result.localStorage /\ settings' = result.settings
    /\ Tick
    /\ UNCHANGED <<packId, hasLoadedFromStorage, studioPc, startedEmpty, lastChange>>
    /\ UNCHANGED <<bnsVars, retryVars, hookVars, storeVars>>

UpdateStemSettings ==
    /\ studioPc = "ready"
    /\ \E stemId \in StemIds, updates \in StemUpdates :
          /\ lastChange' = [isNull |-> FALSE, stemId |-> stemId, updates |-> updates]
          /\ IF settings = null
             THEN UNCHANGED <<localStorage, settings>>
             ELSE LET updatedSettings ==
                          [settings EXCEPT
                             !.stems = Tuple([k \in 1..Len(settings.stems) |->
                                 IF settings.stems[k].id = stemId
                                 THEN spread(settings.stems[k], updates)
                                 ELSE settings.stems[k]]),
                             !.lastModified = clock]
                      result == saved(updatedSettings)
                  IN  localStorage' = result.localStorage /\ settings' = result.settings
    /\ Tick
    /\ UNCHANGED <<packId, hasLoadedFromStorage, studioPc, startedEmpty>>
    /\ UNCHANGED <<bnsVars, retryVars, hookVars, storeVars>>

UpdateMasterVolume ==
    /\ studioPc = "ready"
    /\ \E volume \in Volumes :
          /\ lastChange' = [isNull |-> FALSE, stemId |-> "", updates |-> [masterVolume |-> volume]]
          /\ IF settings = null
             THEN UNCHANGED <<localStorage, settings>>
             ELSE LET result == saved([settings EXCEPT !.masterVolume = volume,
                                                       !.lastModified = clock])
                  IN  localStorage' = result.localStorage /\ settings' = result.settings
    /\ Tick
    /\ UNCHANGED <<packId, hasLoadedFromStorage, studioPc, startedEmpty>>
    /\ UNCHANGED <<bnsVars, retryVars, hookVars, storeVars>>

\* InspiraStudio is unmounted: its cleanup effect calls clearSettings, which
\* removes the entry of the pack and sets settings to null
Unmount ==
    /\ studioPc = "ready"
    /\ IF packId = ""
       THEN UNCHANGED <<localStorage, settings>>
       ELSE /\ localStorage' = [localStorage EXCEPT ![storageKey] = null]
            /\ settings' = null
    /\ studioPc' = "unmounted"
    /\ lastChange' = null
    /\ UNCHANGED <<packId, hasLoadedFromStorage, clock, startedEmpty>>
    /\ UNCHANGED <<bnsVars, retryVars, hookVars, storeVars>>

\* the studio of a pack is opened again: a new instance of the hook
Mount ==
    /\ studioPc = "unmounted"
    /\ \E p \in PackIds :
          /\ packId' = p
          /\ startedEmpty' = (localStorage[STORAGE_KEY_PREFIX \o p] = null)
    /\ settings' = null /\ hasLoadedFromStorage' = FALSE
    /\ studioPc' = "mounted"
    /\ lastChange' = null
    /\ UNCHANGED <<localStorage, clock>>
    /\ UNCHANGED <<bnsVars, retryVars, hookVars, storeVars>>

NextStudio ==
    \/ LoadWithoutPack
    \/ LoadSettings
    \/ SaveSettings
    \/ UpdateStemSettings
    \/ UpdateMasterVolume
    \/ Unmount
    \/ Mount

SpecStudio == InitStudio /\ [][NextStudio]_vars

----------------------------------------------------------------------------
(* useBlockchainStore: setCurrentBlock, setBnsPrompt, clearBlock and        *)
(* fetchAndSetBlock                                                         *)

\* the largest number of fetchAndSetBlock calls
MaxCalls == 2

\* the blocks the Blockstream API knows, by height
Chain ==
    [h \in {1, 840000} |->
        [isNull |-> FALSE, height |-> h,
         hash |-> IF h = 1 THEN "hash-1" ELSE "hash-840000",
         merkleRoot |-> IF h = 1
                        THEN promptRoot(ROOT_BYTES, MarkerBytes[2], MarkerBytes[5],
                                        <<<<"3","0">>, <<"5","8">>, <<"5","8">>, <<"e","d">>, <<"0","0">>>>)
                        ELSE promptRoot(ROOT_BYTES, MarkerBytes[4], MarkerBytes[7],
                                        <<<<"f","f">>, <<"2","5">>, <<"4","a">>>>)]] @@ <<>>

Blocks == {Chain[h] : h \in DOMAIN Chain}

\* the heights fetchAndSetBlock is called with; 900000 is beyond the tip
FetchHeights == DOMAIN Chain \cup {900000}

\* generateBnsPrompt(merkleRoot, height) and findBnsWords(merkleRoot, 8) of the
\* blocks, computed once and kept in bnsTable
bnsOf ==
    [b \in Blocks |->
        [prompt |-> Tuple(generateBnsPrompt(b.merkleRoot, b.height)),
         matches |-> Tuple(findBnsWords(b.merkleRoot, DEFAULT_MAX_WORDS))]] @@ <<>>

HASH_FAILED == "Failed to fetch block hash"
DETAILS_FAILED == "Failed to fetch block details"
FETCH_BLOCK_FAILED == "Failed to fetch block"

\* what the try block of fetchAndSetBlock can throw while it awaits the hash
HashErrors ==
    {[isError |-> TRUE, message |-> HASH_FAILED],
     [isError |-> TRUE, message |-> "Failed to fetch"],
     [isError |-> FALSE, message |-> ""]}

\* what it can throw while it awaits the block: the last one is the TypeError
\* of merkleToTldAlpha when blockData.merkle_root is undefined
BlockErrors ==
    {[isError |-> TRUE, message |-> DETAILS_FAILED],
     [isError |-> TRUE, message |-> "Failed to fetch"],
     [isError |-> TRUE, message |-> "Cannot read properties of undefined (reading 'length')"]}

\* set(partial) of zustand: the fields of the patch replace those of the state
Patched(patch, field, old) == IF field \in DOMAIN patch THEN patch[field] ELSE old

Set(patch) ==
    /\ currentBlock' = Patched(patch, "currentBlock", currentBlock)
    /\ bnsPrompt' = Patched(patch, "bnsPrompt", bnsPrompt)
    /\ bnsMatches' = Patched(patch, "bnsMatches", bnsMatches)
    /\ isLoading' = Patched(patch, "isLoading", isLoading)
    /\ storeError' = Patched(patch, "error", storeError)

\* the patch of setCurrentBlock
blockPatch(block) ==
    [currentBlock |-> block, bnsPrompt |-> bnsTable[block].prompt,
     bnsMatches |-> bnsTable[block].matches, error |-> null]

\* the patch of clearBlock without the reset of bnsMatches
clearPatch_keepsMatches == [currentBlock |-> null, bnsPrompt |-> <<>>, error |-> null]

\* the patch of clearBlock
clearPatch == [currentBlock |-> null, bnsPrompt |-> <<>>, bnsMatches |-> <<>>, error |-> null]

\* the patch of a successful fetchAndSetBlock
successPatch(block) ==
    [currentBlock |-> block, bnsPrompt |-> bnsTable[block].prompt,
     bnsMatches |-> bnsTable[block].matches, isLoading |-> FALSE, error |-> null]

\* the patch of the catch block with the block fields reset as well
failurePatch_resetsBlock(err) ==
    [isLoading |-> FALSE, currentBlock |-> null, bnsPrompt |-> <<>>, bnsMatches |-> <<>>,
     error |-> Error(IF err.isError THEN err.message ELSE FETCH_BLOCK_FAILED)]

\* the patch of the catch block
failurePatch(err) ==
    [isLoading |-> FALSE,
     error |-> Error(IF err.isError THEN err.message ELSE FETCH_BLOCK_FAILED)]

InFlight(c) == c.stage \in {"hash", "block"}

InitStore ==
    /\ BnsIdle /\ RetryIdle /\ HookIdle /\ StudioIdle
    /\ StoreCreated
    /\ bnsTable = bnsOf

SetCurrentBlock ==
    /\ \E block \in Blocks : Set(blockPatch(block))
    /\ disturbed' = TRUE
    /\ UNCHANGED <<calls, bnsTable>>
    /\ UNCHANGED <<bnsVars, retryVars, hookVars, studioVars>>

SetBnsPrompt ==
    /\ \E text \in {<<>>, <<"j","a","z","z">>} : Set([bnsPrompt |-> text])
    /\ UNCHANGED <<calls, disturbed, bnsTable>>
    /\ UNCHANGED <<bnsVars, retryVars, hookVars, studioVars>>

ClearBlock ==
    /\ Set(clearPatch)
    /\ disturbed' = TRUE
    /\ UNCHANGED <<calls, bnsTable>>
    /\ UNCHANGED <<bnsVars, retryVars, hookVars, studioVars>>

\* fetchAndSetBlock(height) up to the await of the first fetch
FetchAndSetBlock ==
    /\ Len(calls) < MaxCalls
    /\ \E h \in FetchHeights :
          calls' = Append(calls,
                      [height |-> h, stage |-> "hash", hash |-> "",
                       overlapped |-> \E k \in 1..Len(calls) : InFlight(calls[k])])
    /\ Set([isLoading |-> TRUE, error |-> null])
    /\ disturbed' = FALSE
    /\ UNCHANGED bnsTable
    /\ UNCHANGED <<bnsVars, retryVars, hookVars, studioVars>>

\* the block-height request is ok and its text is read: the second fetch
HashArrives ==
    /\ \E k \in 1..Len(calls) :
          /\ calls[k].stage = "hash"
          /\ calls[k].height \in DOMAIN Chain
          /\ calls' = [calls EXCEPT ![k].stage = "block",
                                    ![k].hash = Chain[calls[k].height].hash]
    /\ UNCHANGED <<storeState, disturbed, bnsTable>>
    /\ UNCHANGED <<bnsVars, retryVars, hookVars, studioVars>>

\* the block request is ok and its JSON is read: the block is set
BlockArrives ==
    /\ \E k \in 1..Len(calls) :
          /\ calls[k].stage = "block"
          /\ \E blockData \in {b \in Blocks : b.hash = calls[k].hash} :
                Set(successPatch([isNull |-> FALSE, height |-> calls[k].height,
                                  hash |-> calls[k].hash,
                                  merkleRoot |-> blockData.merkleRoot]))
          /\ calls' = [calls EXCEPT ![k].stage = "ok"]
    /\ UNCHANGED <<disturbed, bnsTable>>
    /\ UNCHANGED <<bnsVars, retryVars, hookVars, studioVars>>

\* a request is not ok or rejects, or the block has no merkle root: the catch block
FetchFails ==
    /\ \E k \in 1..Len(calls) :
          /\ InFlight(calls[k])
          /\ \E err \in (IF calls[k].stage = "hash" THEN HashErrors ELSE BlockErrors) :
                Set(failurePatch(err))
          /\ calls' = [calls EXCEPT ![k].stage = "failed"]
    /\ UNCHANGED <<disturbed, bnsTable>>
    /\ UNCHANGED <<bnsVars, retryVars, hookVars, studioVars>>

NextStore ==
    \/ SetCurrentBlock
    \/ SetBnsPrompt
    \/ ClearBlock
    \/ FetchAndSetBlock
    \/ HashArrives
    \/ BlockArrives
    \/ FetchFails

SpecStore == InitStore /\ [][NextStore]_vars

----------------
(* Vocabulary of the properties                                            *)

Alphabet == Range(TLD_ALPHABET)

\* an even-length string over the characters 0-9a-f
IsEvenHex(h) == Len(h) % 2 = 0 /\ \A k \in 1..Len(h) : h[k] \in Range(HEX_DIGITS)

\* the two hex characters that write the byte b
HexOf(b) == <<HEX_DIGITS[(b \div 16) + 1], HEX_DIGITS[(b % 16) + 1]>>

\* the two characters at byte position i (0-based) of h
BytePair(h, i) == <<h[2 * i + 1], h[2 * i + 2]>>

\* the alphabet as the claim spells it: a..z, then 0..9, then '-'
SpelledAlphabet ==
    LOWER_CASE \o <<"0","1","2","3","4","5","6","7","8","9">> \o <<"-">>

\* 0-based position of an alphabet character
AlphaIndex(c) == CHOOSE k \in 0..(Len(TLD_ALPHABET) - 1) : TLD_ALPHABET[k + 1] = c

\* floor(37/2)
HalfAlphabet == Len(TLD_ALPHABET) \div 2

RECURSIVE SumAbs(_)
SumAbs(s) == IF s = <<>> THEN 0 ELSE Abs(Head(s)) + SumAbs(Tail(s))

\* the 0-based start positions at which w fits into alpha
StartPositions(alpha, w) == 0..(Len(alpha) - Len(w))

\* w occurs in alpha at 0-based position p
OccursAt(alpha, w, p) ==
    /\ p \in StartPositions(alpha, w)
    /\ \A i \in 1..Len(w) : alpha[p + i] = w[i]

\* sum of the absolute shift distances of w against the window at position p
WindowCost(alpha, w, p) ==
    SumAbs([i \in 1..Len(w) |-> calculateCharShift(alpha[p + i], w[i])])

----------------------------------------------------------------------------
(* Properties of merkleToTldAlpha, checked under SpecAlpha                  *)

\* C1: for every even-length string over 0-9a-f, the result of
\* merkleToTldAlpha has half the length of the input and consists of
\* alphabet characters only.
C1_HalfLengthInAlphabet ==
    (pc = "done" /\ IsEvenHex(merkleRoot)) =>
        /\ Len(tldAlpha) = Len(merkleRoot) \div 2
        /\ \A k \in 1..Len(tldAlpha) : tldAlpha[k] \in Alphabet

C1_Witness ==
    /\ pc = "done" /\ IsEvenHex(merkleRoot)
    /\ Len(merkleRoot) = 6 /\ Len(tldAlpha) = 3
    /\ BytePair(merkleRoot, 1) = <<"c","8">>

\* C2: a byte b written as two hex characters at byte position i yields
\* Alphabet[b mod 37] as character i of the result, the alphabet being
\* a..z, 0..9, '-' in that order; "00" gives "a" and "ff" gives "7".
C2_ByteModAlphabet ==
    /\ TLD_ALPHABET = SpelledAlphabet
    /\ (pc = "done" /\ IsEvenHex(merkleRoot)) =>
        /\ \A b \in 0..255 : \A i \in 0..((Len(merkleRoot) \div 2) - 1) :
              BytePair(merkleRoot, i) = HexOf(b) =>
                  /\ i + 1 <= Len(tldAlpha)
                  /\ tldAlpha[i + 1] = SpelledAlphabet[(b % 37) + 1]
        /\ (merkleRoot = <<"0","0">> => tldAlpha = <<"a">>)
        /\ (merkleRoot = <<"f","f">> => tldAlpha = <<"7">>)

C2_Witness ==
    pc = "done" /\ merkleRoot = <<"0","0","f","f">> /\ tldAlpha = <<"a","7">>

----------------------------------------------------------------------------
(* Properties of calculateCharShift, checked under SpecShift                *)

\* C3: for alphabet characters c1, c2 the shift from c1 to c2 is the
\* negation of the shift from c2 to c1.
C3_Antisymmetric ==
    (pc = "done" /\ source \in Alphabet /\ target \in Alphabet) =>
        shift = -calculateCharShift(target, source)

C3_Witness ==
    pc = "done" /\ source = "c" /\ target = "-" /\ shift = -3

\* C4: for alphabet characters the shift lies in [-18, 18].
C4_AtMostHalf ==
    (pc = "done" /\ source \in Alphabet /\ target \in Alphabet) =>
        (shift >= -HalfAlphabet /\ shift <= HalfAlphabet)

C4_Witness ==
    pc = "done" /\ source = "s" /\ target = "a" /\ shift = -HalfAlphabet

\* C5: the shift from an alphabet character to itself is 0.
C5_ZeroOnSelf ==
    (pc = "done" /\ source \in Alphabet /\ target = source) => shift = 0

C5_Witness ==
    pc = "done" /\ source = "-" /\ target = "-" /\ shift = 0

\* C6: with s and t the indices of source and target, the result r satisfies
\* (s + r) mod 37 = t and |r| = min((t - s) mod 37, (s - t) mod 37), and r is
\* positive when the forward way is the shorter one.
C6_MinimalCircularStep ==
    (pc = "done" /\ source \in Alphabet /\ target \in Alphabet) =>
        LET s == AlphaIndex(source)
            t == AlphaIndex(target)
            fwd == (t - s) % 37
            bwd == (s - t) % 37
        IN  /\ (s + shift) % 37 = t
            /\ Abs(shift) = Min(fwd, bwd)
            /\ (fwd < bwd /\ fwd > 0) => shift > 0
            /\ (bwd < fwd) => shift < 0

C6_Witness ==
    pc = "done" /\ source = "9" /\ target = "b" /\ shift = 3

----------------------------------------------------------------------------
(* Properties of findWordMatch, checked under SpecMatch                     *)

\* C7: findWordMatch returns null when the word is longer than the string,
\* and a match when the word has between 1 and len(alpha) characters.
C7_NullIffTooLong ==
    pc = "done" =>
        /\ Len(word) > Len(tldAlpha) => match = null
        /\ (1 <= Len(word) /\ Len(word) <= Len(tldAlpha)) =>
              (match # null /\ match.word = word)

C7_Witness ==
    pc = "done" /\ Len(word) = 3 /\ Len(tldAlpha) = 2 /\ match = null

\* C8: when the word occurs in the string, the match is exact, has
\* totalShift 0 and sits at the smallest position at which the word occurs.
C8_EarliestExact ==
    (pc = "done" /\ \E p \in StartPositions(tldAlpha, word) : OccursAt(tldAlpha, word, p)) =>
        /\ match # null
        /\ match.exactMatch = TRUE
        /\ match.totalShift = 0
        /\ OccursAt(tldAlpha, word, match.position)
        /\ \A p \in StartPositions(tldAlpha, word) :
              OccursAt(tldAlpha, word, p) => match.position <= p
        /\ (tldAlpha = <<"a","a","a","a">> /\ word = <<"a","a","a">>) =>
              match.position = 0

C8_Witness ==
    /\ pc = "done"
    /\ tldAlpha = <<"c","a","-","a">> /\ word = <<"a">>
    /\ match # null /\ match.exactMatch /\ match.position = 1

\* C9: the match has the minimal totalShift over all start positions, at the
\* lowest position that attains it.
C9_MinimalLowestPosition ==
    (pc = "done" /\ Len(word) <= Len(tldAlpha)) =>
        /\ match # null
        /\ match.position \in StartPositions(tldAlpha, word)
        /\ match.totalShift = WindowCost(tldAlpha, word, match.position)
        /\ \A p \in StartPositions(tldAlpha, word) :
              /\ match.totalShift <= WindowCost(tldAlpha, word, p)
              /\ WindowCost(tldAlpha, word, p) = match.totalShift => match.position <= p

C9_Witness ==
    /\ pc = "done"
    /\ tldAlpha = <<"c","-","c","-">> /\ word = <<"a","a">>
    /\ match # null /\ match.position = 0 /\ match.totalShift = 3
    /\ ~match.exactMatch

----------------------------------------------------------------------------
(* Properties of findBnsWords, checked under SpecWords                      *)

\* C10: the list returned by findBnsWords is sorted: exact matches precede
\* the others, and within each group totalShift is non-decreasing.
C10_Sorted ==
    pc = "done" =>
        \A i \in 1..Len(matches) : \A j \in (i + 1)..Len(matches) :
            /\ matches[j].exactMatch => matches[i].exactMatch
            /\ (matches[i].exactMatch = matches[j].exactMatch) =>
                  matches[i].totalShift <= matches[j].totalShift

C10_Witness ==
    /\ pc = "done" /\ Len(matches) >= 3
    /\ matches[1].exactMatch /\ ~matches[Len(matches)].exactMatch
    /\ matches[2].totalShift < matches[Len(matches)].totalShift

\* the matches of every dictionary word that fits, in declaration order
DictionaryMatches(root) ==
    LET alpha == merkleToTldAlpha(root)
    IN  SelectSeq(Tuple([k \in 1..Len(BNS_WORD_LIST) |->
                            findWordMatch(alpha, BNS_WORD_LIST[k])]), isMatch)

\* the (exactMatch, totalShift) pairs that occur in a list of matches
SortKeys(ms) == {<<ms[k].exactMatch, ms[k].totalShift>> : k \in 1..Len(ms)}

\* the entries of ms with the given (exactMatch, totalShift) pair, in order
WithKey(ms, key) ==
    LET hasKey(m) == m.exactMatch = key[1] /\ m.totalShift = key[2]
    IN  SelectSeq(ms, hasKey)

IsPrefix(s, t) == Len(s) <= Len(t) /\ s = SubSeq(t, 1, Len(s))

\* C11: entries of the result with the same exactMatch flag and the same
\* totalShift appear in the order in which their words are declared in
\* BNS_WORD_LIST: for each such pair of values, the entries carrying it are
\* the first ones, in declaration order, of the dictionary matches carrying it.
C11_TiesInDictionaryOrder ==
    pc = "done" =>
        LET all == Tuple(DictionaryMatches(merkleRoot))
        IN  \A key \in SortKeys(matches) :
                IsPrefix(WithKey(matches, key), Tuple(WithKey(all, key)))

C11_Witness ==
    /\ pc = "done" /\ Len(matches) = DEFAULT_MAX_WORDS
    /\ merkleRoot = <<"3","0","3","0","3","0">>
    /\ matches[2].word = <<"l","o","w">> /\ matches[3].word = <<"f","o","g">>
    /\ matches[2].totalShift = matches[3].totalShift
    /\ matches[2].exactMatch = matches[3].exactMatch

\* the limits above n, and the nearest of them
LimitsAbove(n) == {m \in MaxWordsArgs : m > n}

NextLimit(n) == CHOOSE m \in LimitsAbove(n) : \A k \in LimitsAbove(n) : m <= k

\* C12: for limits 0 <= n <= m, findBnsWords(root, n) is the first n entries
\* of findBnsWords(root, m), or all of them when there are fewer, and has at
\* most n entries. Every limit is compared with the next larger one; being
\* the first entries of a list carries over from each limit to all larger ones.
C12_LimitOnlyTruncates ==
    pc = "done" =>
        /\ Len(matches) <= maxWords
        /\ LimitsAbove(maxWords) # {} =>
              LET longer == Tuple(findBnsWords(merkleRoot, NextLimit(maxWords)))
              IN  matches = SubSeq(longer, 1, Min(maxWords, Len(longer)))

C12_Witness ==
    /\ pc = "done" /\ maxWords = PROMPT_WORDS /\ Len(matches) = PROMPT_WORDS
    /\ Len(findBnsWords(merkleRoot, DEFAULT_MAX_WORDS)) = DEFAULT_MAX_WORDS
    /\ matches[1].exactMatch /\ ~matches[2].exactMatch

----------------------------------------------------------------------------
(* Properties of generateBnsPrompt, checked under SpecPrompt                *)

IsHex(h) == \A k \in 1..Len(h) : h[k] \in Range(HEX_DIGITS)

\* a merkle root: 64 hex characters
IsHex64(h) == Len(h) = 64 /\ IsHex(h)

StartsWith(s, pre) == Len(pre) <= Len(s) /\ SubSeq(s, 1, Len(pre)) = pre

EndsWith(s, suf) ==
    Len(suf) <= Len(s) /\ SubSeq(s, Len(s) - Len(suf) + 1, Len(s)) = suf

Contains(s, sub) ==
    \E k \in 0..(Len(s) - Len(sub)) : SubSeq(s, k + 1, k + Len(sub)) = sub

DecimalDigitChars == {"0","1","2","3","4","5","6","7","8","9"}

\* the value of one hex digit
HexValue(c) == CHOOSE v \in 0..15 : HEX_DIGITS[v + 1] = c

\* the number a sequence of decimal digits writes
RECURSIVE DecimalValue(_)
DecimalValue(ds) ==
    IF ds = <<>> THEN 0
    ELSE 10 * DecimalValue(SubSeq(ds, 1, Len(ds) - 1)) + HexValue(ds[Len(ds)])

\* the characters of s before its first blank
RECURSIVE FirstToken(_)
FirstToken(s) ==
    IF s = <<>> \/ Head(s) = " " THEN <<>> ELSE <<Head(s)>> \o FirstToken(Tail(s))

\* the first and the last byte of an even-length hex string
FirstByteValue(h) == 16 * HexValue(h[1]) + HexValue(h[2])
LastByteValue(h) == 16 * HexValue(h[Len(h) - 1]) + HexValue(h[Len(h)])

\* C13: for a 64-hex-character root and a height >= 0 the prompt starts with
\* "block " followed by the decimal writing of the height, and ends with
\* "bitcoin blockchain".
C13_BlockHeightAndTrailer ==
    (pc = "done" /\ IsHex64(merkleRoot) /\ height >= 0) =>
        /\ StartsWith(prompt, <<"b","l","o","c","k"," ">>)
        /\ LET digits == FirstToken(SubSeq(prompt, 7, Len(prompt)))
           IN  /\ digits # <<>>
               /\ \A k \in 1..Len(digits) : digits[k] \in DecimalDigitChars
               /\ (Len(digits) > 1 => digits[1] # "0")
               /\ DecimalValue(digits) = height
        /\ EndsWith(prompt, <<"b","i","t","c","o","i","n"," ",
                              "b","l","o","c","k","c","h","a","i","n">>)

C13_Witness ==
    /\ pc = "done" /\ IsHex64(merkleRoot) /\ height = 840999
    /\ StartsWith(prompt, <<"b","l","o","c","k"," ","8","4","0","9","9","9"," ">>)

\* "block {height}" followed by one blank
BlockSegment(h) == <<"b","l","o","c","k"," ">> \o numberToString(h) \o <<" ">>

\* the entry of an 8-entry list that a byte selects
SelectedBy(list, byte) == list[(byte % 8) + 1]

\* the claim of C14 as it is stated: for every even-length hex root the mood
\* token, the segment after the genre, is moods[(last byte of root) mod 8],
\* the last byte being the final two hex characters of the root.
C14_MoodFromLastByte ==
    (pc = "done" /\ IsHex(merkleRoot) /\ Len(merkleRoot) >= 2
                 /\ Len(merkleRoot) % 2 = 0) =>
        StartsWith(prompt,
            BlockSegment(height)
                \o SelectedBy(genres, FirstByteValue(merkleRoot)) \o <<" ">>
                \o SelectedBy(moods, LastByteValue(merkleRoot)) \o <<" ">>)

\* C15: the genre token is genres[(first byte of root) mod 8], the first byte
\* being the first two hex characters of the root and genres the fixed list of
\* 8 entries; it is the segment right after "block {height}".
C15_GenreFromFirstByte ==
    (pc = "done" /\ IsHex(merkleRoot) /\ Len(merkleRoot) >= 2) =>
        /\ Len(genres) = 8
        /\ StartsWith(prompt,
               BlockSegment(height)
                   \o SelectedBy(genres, FirstByteValue(merkleRoot)) \o <<" ">>)

C15_Witness ==
    /\ pc = "done" /\ IsHex64(merkleRoot)
    /\ FirstByteValue(merkleRoot) = 246
    /\ StartsWith(prompt, BlockSegment(height) \o <<"b","o","o","m"," ","b","a","p"," ">>)

\* the four halving labels with their windows [from, from + 1000)
HalvingWindows ==
    {<<210000, FIRST_HALVING>>, <<420000, SECOND_HALVING>>,
     <<630000, THIRD_HALVING>>, <<840000, FOURTH_HALVING>>}

HalvingLabels == {w[2] : w \in HalvingWindows}

EraLabels == HalvingLabels \cup {EARLY_BITCOIN, MODERN_ERA}

InWindow(h, w) == w[1] <= h /\ h < w[1] + 1000

InSomeWindow(h) == \E w \in HalvingWindows : InWindow(h, w)

\* the era labels that occur in a prompt
EraLabelsIn(p) == {l \in EraLabels : Contains(p, l)}

\* C16: a height in [210000, 211000) gets "first halving", one in
\* [420000, 421000) "second halving", one in [630000, 631000) "third halving",
\* one in [840000, 841000) "fourth halving", the label standing right before
\* "bitcoin blockchain"; a height outside the windows (209999, 211000, ...)
\* gets no halving label.
C16_HalvingWindows ==
    pc = "done" =>
        /\ \A w \in HalvingWindows :
              InWindow(height, w) =>
                  EndsWith(prompt, <<" ">> \o w[2] \o <<" ">> \o TRAILER)
        /\ ~InSomeWindow(height) =>
              \A l \in HalvingLabels : ~Contains(prompt, l)

C16_Witness ==
    /\ pc = "done" /\ height = 210999
    /\ EndsWith(prompt, <<" ">> \o FIRST_HALVING \o <<" ">> \o TRAILER)

\* C17: for a height >= 0 the prompt carries at most one era label; above
\* 800000 it is "modern era" unless the height lies in [840000, 841000), where
\* it is "fourth halving"; there is no era label exactly when
\* 100000 <= height <= 800000 outside the halving windows.
C17_AtMostOneEra ==
    (pc = "done" /\ height >= 0) =>
        /\ Cardinality(EraLabelsIn(prompt)) <= 1
        /\ (height > 800000 /\ ~InWindow(height, <<840000, FOURTH_HALVING>>)) =>
              EraLabelsIn(prompt) = {MODERN_ERA}
        /\ InWindow(height, <<840000, FOURTH_HALVING>>) =>
              EraLabelsIn(prompt) = {FOURTH_HALVING}
        /\ EraLabelsIn(prompt) = {}
              <=> (100000 <= height /\ height <= 800000 /\ ~InSomeWindow(height))

C17_Witness ==
    /\ pc = "done" /\ height = 839999
    /\ EraLabelsIn(prompt) = {MODERN_ERA}
    /\ EndsWith(prompt, <<" ">> \o MODERN_ERA \o <<" ">> \o TRAILER)

\* the era label the height ranges give, none for the heights between
EraSegments(h) ==
    IF h < 100000 THEN <<EARLY_BITCOIN>>
    ELSE IF InSomeWindow(h)
         THEN <<(CHOOSE w \in HalvingWindows : InWindow(h, w))[2]>>
    ELSE IF h > 800000 THEN <<MODERN_ERA>>
    ELSE <<>>

\* segments written one after the other with one blank between two of them
RECURSIVE Spaced(_)
Spaced(segs) ==
    IF Len(segs) = 0 THEN <<>>
    ELSE IF Len(segs) = 1 THEN segs[1]
    ELSE segs[1] \o <<" ">> \o Spaced(Tail(segs))

PromptSegments(root, h) ==
    LET ranked == findBnsWords(root, 6)
    IN  <<<<"b","l","o","c","k"," ">> \o numberToString(h),
          SelectedBy(genres, FirstByteValue(root)),
          SelectedBy(moods, LastByteValue(root))>>
        \o Tuple([k \in 1..Len(ranked) |-> ranked[k].word])
        \o EraSegments(h)
        \o <<TRAILER>>

\* C18: for a 64-hex-character root and a height >= 0 the prompt is exactly
\* "block {height}", genre, mood, the words of findBnsWords(root, 6) in ranked
\* order, the era label if there is one, and "bitcoin blockchain", joined by
\* single blanks: no empty segment, no double blank, no blank at either end.
C18_ExactComposition ==
    (pc = "done" /\ IsHex64(merkleRoot) /\ height >= 0) =>
        LET segs == PromptSegments(merkleRoot, height)
        IN  /\ prompt = Spaced(segs)
            /\ \A k \in 1..Len(segs) : segs[k] # <<>>
            /\ ~Contains(prompt, <<" ", " ">>)
            /\ prompt[1] # " " /\ prompt[Len(prompt)] # " "

C18_Witness ==
    /\ pc = "done" /\ IsHex64(merkleRoot) /\ height = 150000
    /\ EraLabelsIn(prompt) = {}
    /\ Len(PromptSegments(merkleRoot, height)) = 10
    /\ prompt = Spaced(PromptSegments(merkleRoot, height))

----------------------------------------------------------------------------
(* Properties of findWordMatch on strings with characters outside the       *)
(* alphabet, checked under SpecSentinel                                     *)

\* the window of w at 0-based position p compares only alphabet characters
AlphabetOnly(alpha, w, p) ==
    \A i \in 1..Len(w) : alpha[p + i] \in Alphabet /\ w[i] \in Alphabet

HasSentinel(m) == \E i \in 1..Len(m.shifts) : m.shifts[i] = ALPHABET_SIZE

\* the matches of alphabet-only strings
CleanMatches ==
    {findWordMatch(a, w) :
        a \in StringsUpTo(SentinelChars \cap Alphabet, MaxAlphaLen),
        w \in StringsUpTo(SentinelChars \cap Alphabet, MaxWordLen) \ {<<>>}}
    \ {null}

----------------------------------------------------------------------------
(* Consistency of the match findWordMatch returns, checked under SpecMatch  *)

\* C20: a match returned by findWordMatch(alpha, word) is consistent:
\* 0 <= position <= len(alpha) - len(word), window is alpha from position on
\* for len(word) characters, shifts has one entry per character of word with
\* shifts[i] the shift distance from window[i] to word[i], totalShift is the
\* sum of the |shifts[i]|, and exactMatch holds exactly when every shift is
\* zero, which is exactly when totalShift is zero.
C20_MatchConsistent ==
    (pc = "done" /\ match # null) =>
        /\ match.word = word
        /\ 0 <= match.position
        /\ match.position <= Len(tldAlpha) - Len(word)
        /\ match.window = SubSeq(tldAlpha, match.position + 1, match.position + Len(word))
        /\ Len(match.shifts) = Len(word)
        /\ \A i \in 1..Len(word) :
              match.shifts[i] = calculateCharShift(match.window[i], word[i])
        /\ match.totalShift = SumAbs(match.shifts)
        /\ match.exactMatch <=> (\A i \in 1..Len(word) : match.shifts[i] = 0)
        /\ match.exactMatch <=> (match.totalShift = 0)

C20_Witness ==
    /\ pc = "done" /\ match # null
    /\ Len(tldAlpha) = MaxAlphaLen /\ Len(word) = MaxAlphaLen - 1
    /\ match.position = 1 /\ ~match.exactMatch
    /\ \E i, j \in 1..Len(match.shifts) : match.shifts[i] < 0 /\ match.shifts[j] > 0

----------------------------------------------------------------------------
(* Distinctness of the words findBnsWords returns, checked under SpecWords  *)

\* the claim of C25 as it is stated: for every root and every limit up to
\* the dictionary size, no two entries of the result carry the same word.
C25_NoRepeatedWord ==
    (pc = "done" /\ maxWords <= Len(BNS_WORD_LIST)) =>
        \A j, k \in 1..Len(matches) :
            matches[j].word = matches[k].word => j = k

----------------------------------------------------------------------------
(* Properties of fetchWithRetry, checked under SpecRetry                    *)

RetrySettled == retryPc \in {"returned", "rejected"}

\* what holds of a call with attempts >= 1 at every moment
RetryBounded ==
    /\ fetchCalls <= attempts
    /\ Len(caught) <= fetchCalls
    /\ retryPc = "returned" =>
          /\ response # null /\ response.call = fetchCalls
          /\ Len(caught) = fetchCalls - 1
          /\ thrown = null
    /\ retryPc = "rejected" =>
          /\ fetchCalls = attempts /\ Len(caught) = attempts
          /\ waited = RETRY_DELAY * ((attempts * (attempts - 1)) \div 2)
          /\ response = null
          /\ thrown # null /\ thrown.message # FAILED_AFTER_ATTEMPTS

\* C23: with attempts = n >= 1 fetchWithRetry issues at most n fetch calls,
\* returns the first response it receives without a further call, rejects
\* right after the n-th failure when all n calls fail (the delays before it
\* are those of the first n - 1 failures only), never throws the fall-through
\* error, and always settles.
C23_BoundedRetry ==
    (attempts >= 1) => ([]RetryBounded /\ <>RetrySettled)

C23_Witness ==
    /\ attempts = MaxAttempts /\ retryPc = "rejected"
    /\ fetchCalls = MaxAttempts /\ thrown = Error(REQUEST_TIMEOUT)
    /\ caught[1] = "TypeError"

----------------------------------------------------------------------------
(* Properties of the job-status polling, checked under SpecPolling          *)

ConnectionLost ==
    error # null /\ error.message \in {CONNECTION_LOST \o m : m \in ApiErrors}

\* the claim of C21 as it is stated: once three polls in a row have failed
\* the timer is cleared, isGenerating is false and error is a "Connection
\* lost" message; and a successful poll sets the failure count to 0.
C21_StopsAfterThreeFailures ==
    /\ [](consecutiveErrorsRef >= 3 =>
            /\ pollingRef = NO_TIMER
            /\ ~isGenerating
            /\ ConnectionLost)
    /\ [][PollResolves => consecutiveErrorsRef' = 0]_vars

\* the delay the claim of C22 gives after n poll errors in a row
ClaimedDelay(n) ==
    IF n = 0 THEN 2000 ELSE IF n = 1 THEN 4000 ELSE IF n = 2 THEN 8000 ELSE 10000

\* the claim of C22 as it is stated: two successive polls of the timer are
\* 2 s apart as long as no poll has failed, 4 s after one error, 8 s after
\* two, never more than 10 s, and 2 s again after a successful poll.
C22_DelayBacksOff ==
    lastPollDelay # 0 =>
        /\ lastPollDelay = ClaimedDelay(errorsAtPoll)
        /\ lastPollDelay <= 10000

\* the claim of C30 as it is stated: from the completion of cancelGeneration
\* to the next generateSamplePack call isGenerating is false,
\* generationResult is null and the state of the hook does not change, a
\* poll in flight at the cancellation included.
C30_CancelIsFinal ==
    cancelled = "yes" =>
        /\ ~isGenerating
        /\ generationResult = null
        /\ hookState = atCancel

----------------------------------------------------------------------------
(* Persistence of the mixer settings, checked under SpecStudio              *)

\* the stored entry of the open pack carries the last change
ChangeIsStored ==
    LET stored == localStorage[storageKey]
    IN  /\ stored # null /\ stored.valid
        /\ stored.value.packId = packId
        /\ IF lastChange.stemId = ""
           THEN stored.value.masterVolume = numberToJson(lastChange.updates.masterVolume)
           ELSE \E k \in 1..Len(stored.value.stems) :
                   /\ stored.value.stems[k].id = lastChange.stemId
                   /\ \A f \in DOMAIN lastChange.updates :
                         stored.value.stems[k][f] =
                            IF f = "volume" THEN numberToJson(lastChange.updates[f])
                            ELSE lastChange.updates[f]

\* the claim of C24 as it is stated: when localStorage had no entry for the
\* pack, a change made through updateStemSettings or updateMasterVolume is
\* written under the key inspira-studio-{packId} as one JSON object.
C24_ChangeIsSaved ==
    (studioPc = "ready" /\ packId # "" /\ startedEmpty /\ lastChange # null) =>
        ChangeIsStored


\* C26: in every reachable state of the store, whatever the interleaving of
\* setCurrentBlock, setBnsPrompt, clearBlock and fetchAndSetBlock, bnsMatches is
\* findBnsWords(currentBlock.merkleRoot, 8) when currentBlock is not null and
\* the empty list when it is null.
C26_MatchesFollowBlock ==
    IF currentBlock = null
    THEN bnsMatches = <<>>
    ELSE bnsMatches = bnsOf[currentBlock].matches

\* a block fetched while another block was set by hand, after a failed call
C26_Witness ==
    /\ Len(calls) = 2 /\ calls[1].stage = "failed" /\ calls[2].stage = "ok"
    /\ calls[2].overlapped /\ ~disturbed
    /\ currentBlock = Chain[840000]
    /\ Len(bnsMatches) > 0
    /\ bnsMatches # bnsOf[Chain[1]].matches

\* C27: a fetchAndSetBlock call that fails (a request that is not ok or
\* rejects, or block data without a merkle root) leaves isLoading false and
\* error a non-empty message, and leaves currentBlock, bnsPrompt and bnsMatches
\* as they were.
C27_FailureKeepsBlock ==
    [][FetchFails =>
          /\ isLoading' = FALSE
          /\ storeError' # null /\ storeError'.message # ""
          /\ UNCHANGED <<currentBlock, bnsPrompt, bnsMatches>>]_vars

\* a call failed on the block request after an earlier call had set a block
C27_Witness ==
    /\ Len(calls) = 2 /\ calls[1].stage = "ok" /\ calls[2].stage = "failed"
    /\ ~calls[2].overlapped /\ ~disturbed
    /\ calls[2].hash # ""
    /\ currentBlock = Chain[calls[1].height]
    /\ bnsPrompt = bnsOf[currentBlock].prompt
    /\ bnsMatches = bnsOf[currentBlock].matches
    /\ ~isLoading /\ storeError = Error(DETAILS_FAILED)

\* C28: when fetchAndSetBlock(h2) is called before fetchAndSetBlock(h1) has
\* settled and both have settled successfully, currentBlock.height is h2,
\* whatever the order of the responses.
C28_LastCallWins ==
    LET n == Len(calls) IN
    (/\ n >= 2
     /\ calls[n].overlapped
     /\ \A k \in 1..n : calls[k].stage = "ok"
     /\ ~disturbed)
        => (currentBlock # null /\ currentBlock.height = calls[n].height)

\* C29: isLoading is true in every state where a fetchAndSetBlock call has
\* started and not settled, and false when no call is in flight.
C29_LoadingWhileInFlight ==
    isLoading <=> (\E k \in 1..Len(calls) : InFlight(calls[k]))

====
